---- MODULE Spec2Model ----
(***************************************************************************)
(* Task lifecycle of the writing/reading assistant.                        *)
(*                                                                         *)
(* Two implementations of the task classes live in the repository:         *)
(*   impl = "core" : src/src/assistant_core.py                             *)
(*   impl = "poc"  : src/poc/assistant_core.py                             *)
(* One task object is modelled; Init draws which implementation and which  *)
(* task kind was constructed, and the parameter bag it was given.          *)
(* Text is a sequence of one-character strings, so that stripping,         *)
(* splitting and substring search are computed as the code computes them.  *)
(* The TaskManager that stores the task is modelled with it: the registry  *)
(* holds the task and a second task created through the manager.           *)
(***************************************************************************)
EXTENDS Integers, Sequences, FiniteSets, TLC

VARIABLES
    impl,             \* which module's classes the task is built from
    kind,             \* "essay" | "reading" (TaskFactory.create_task)
    task_id,          \* Task.id
    created_at,       \* Task.created_at, a value of the clock
    now,              \* datetime.now(), in half days; the calls of one run are
                      \* made within the same half day, a restore of the
                      \* serialized record may come later
    params,           \* Task.params
    status,           \* Task.status
    current_stage,    \* Task.current_stage / current_stage_idx
    essay_data,       \* EssayAssistantTask.essay_data
    stage_completed,  \* EssayStage.completed of the four stage objects (core)
    timeline,         \* EssayAssistantTask.timeline (core): <<>> is None
    sources,          \* ReadingAssistantTask.sources
    queue,            \* ReadingAssistantTask.queue
    current_index,    \* ReadingAssistantTask.current_index
    current_source_idx, \* ReadingAssistantTask.current_source_idx (poc):
                      \* <<>> is None
    shuffle_each_round, \* ReadingAssistantTask.shuffle_each_round
    rng,              \* ReadingAssistantTask._rng: <<seed, draws so far>>
    tasks,            \* TaskManager.tasks: the identifiers it stores
    sibling,          \* the second task a manager was asked to create: <<>>
                      \* before create_task
    result            \* what the last call returned or raised

vars == <<impl, kind, task_id, created_at, now, params, status, current_stage, essay_data,
          stage_completed, timeline, sources, queue, current_index,
          current_source_idx, shuffle_each_round, rng, tasks, sibling, result>>

\* what no method of the task object assigns
fixedVars == <<impl, kind, task_id, created_at, now, tasks, sibling>>

essayVars == <<current_stage, essay_data, stage_completed, timeline>>
readingVars == <<sources, queue, current_index, current_source_idx,
                 shuffle_each_round, rng>>

-----------------------------------------------------------------------------
(* Text primitives (Python str methods) *)

Chars(s) == [i \in 1..Len(s) |-> SubSeq(s, i, i)]

IsSpace(c) == c \in {" ", "\n", "\t", "\r"}

UpperLetters == Chars("ABCDEFGHIJKLMNOPQRSTUVWXYZ")
LowerLetters == Chars("abcdefghijklmnopqrstuvwxyz")
Digits == Chars("0123456789")

SeqToSet(s) == {s[i] : i \in 1..Len(s)}

LowerSet == SeqToSet(LowerLetters)
UpperSet == SeqToSet(UpperLetters)
WordCharSet == LowerSet \cup UpperSet \cup SeqToSet(Digits) \cup {"_"}

IsLowerLetter(c) == c \in LowerSet
IsUpperLetter(c) == c \in UpperSet
\* \w of the re module
IsWordChar(c) == c \in WordCharSet

LowerMap == [c \in UpperSet |-> LowerLetters[CHOOSE i \in 1..26 : UpperLetters[i] = c]]

LowerChar(c) == IF c \in UpperSet THEN LowerMap[c] ELSE c

\* str.lower
Lower(s) == [i \in 1..Len(s) |-> LowerChar(s[i])]

Min(a, b) == IF a < b THEN a ELSE b
Max(a, b) == IF a > b THEN a ELSE b
Abs(a) == IF a < 0 THEN -a ELSE a

\* the positions 1..Len(s) that satisfy At, in increasing order
Positions(s, At(_)) == SelectSeq([i \in 1..Len(s) |-> i], At)

\* length of the longest prefix of s whose characters all satisfy P
PrefixLen(s, P(_)) ==
    CHOOSE n \in 0..Len(s) :
        /\ \A i \in 1..n : P(s[i])
        /\ n = Len(s) \/ ~P(s[n + 1])

\* length of the longest suffix of s whose characters all satisfy P
SuffixLen(s, P(_)) ==
    CHOOSE n \in 0..Len(s) :
        /\ \A i \in (Len(s) - n + 1)..Len(s) : P(s[i])
        /\ n = Len(s) \/ ~P(s[Len(s) - n])

LStrip(s) == SubSeq(s, PrefixLen(s, IsSpace) + 1, Len(s))

RStrip(s) == SubSeq(s, 1, Len(s) - SuffixLen(s, IsSpace))

\* str.strip
Strip(s) == RStrip(LStrip(s))

\* str.split(sep) for a one-character separator: n separators give n+1 pieces
SplitOn(s, sep) ==
    LET cuts == Positions(s, LAMBDA i : s[i] = sep)
        from(k) == IF k = 1 THEN 1 ELSE cuts[k - 1] + 1
        to(k) == IF k = Len(cuts) + 1 THEN Len(s) ELSE cuts[k] - 1
    IN  [k \in 1..(Len(cuts) + 1) |-> SubSeq(s, from(k), to(k))]

\* the maximal runs of positions satisfying At, left to right
RunsAt(s, At(_)) ==
    LET starts == Positions(s, LAMBDA i : At(i) /\ (i = 1 \/ ~At(i - 1)))
        ends == Positions(s, LAMBDA i : At(i) /\ (i = Len(s) \/ ~At(i + 1)))
    IN  [k \in 1..Len(starts) |-> SubSeq(s, starts[k], ends[k])]

\* the maximal runs of characters satisfying P, left to right
Runs(s, P(_)) == RunsAt(s, LAMBDA i : P(s[i]))

IsNotSpace(c) == ~IsSpace(c)

\* str.split() with no argument: whitespace-delimited tokens, no empty ones
SplitWords(s) == Runs(s, IsNotSpace)

\* [x.strip() for x in s.split(".") if x.strip()]
StrippedSentences(s) ==
    LET parts == SplitOn(s, ".")
        keep == SelectSeq(parts, LAMBDA p : Strip(p) # <<>>)
    IN  [i \in 1..Len(keep) |-> Strip(keep[i])]

\* pat in s
Contains(s, pat) ==
    \E i \in 1..(Len(s) - Len(pat) + 1) : SubSeq(s, i, i + Len(pat) - 1) = pat

\* s.index(pat) as a 1-based position; 0 when absent
IndexOf(s, pat) ==
    IF Contains(s, pat)
    THEN CHOOSE i \in 1..(Len(s) - Len(pat) + 1) :
            /\ SubSeq(s, i, i + Len(pat) - 1) = pat
            /\ \A j \in 1..(i - 1) : SubSeq(s, j, j + Len(pat) - 1) # pat
    ELSE 0

\* s * n
Repeat(s, n) == [i \in 1..(n * Len(s)) |-> s[((i - 1) % Len(s)) + 1]]

RECURSIVE SumSeq(_)
SumSeq(s) == IF s = <<>> THEN 0 ELSE Head(s) + SumSeq(Tail(s))

\* round(num / den) of Python 3: to nearest, ties to the even integer
RoundHalfEven(num, den) ==
    LET q == num \div den
        r == num % den
    IN  IF 2 * r < den THEN q
        ELSE IF 2 * r > den THEN q + 1
        ELSE IF q % 2 = 0 THEN q ELSE q + 1

-----------------------------------------------------------------------------
(* Essay data model *)

INITIALIZED == "initialized"
ACTIVE == "active"
COMPLETED == "completed"
FAILED == "failed"

NoOutline == [set |-> FALSE, sections |-> <<>>]

\* EssayData()
EssayData ==
    [topic |-> <<>>, essay_type |-> "", word_count |-> 0, deadline |-> <<>>,
     thesis |-> <<>>, thesis_suggestions |-> <<>>, outline |-> NoOutline,
     sections |-> <<>>, revision_passes |-> <<>>]

OutlineSection(title, word_count, guiding_question) ==
    [title |-> title, word_count |-> word_count,
     guiding_question |-> guiding_question, content |-> <<>>, completed |-> FALSE]

EssaySection(title, target_words, guiding_question, tree_prompts) ==
    [title |-> title, target_words |-> target_words,
     guiding_question |-> guiding_question, content |-> <<>>,
     actual_words |-> 0, completed |-> FALSE, tree_prompts |-> tree_prompts]

RevisionIssue(issue_type, description, location, severity) ==
    [issue_type |-> issue_type, description |-> description,
     location |-> location, severity |-> severity, resolved |-> FALSE]

HasHigh(issues) == \E i \in 1..Len(issues) : issues[i].severity = "high"

-----------------------------------------------------------------------------
(* Stage 1: Pick Ideas *)

PickIdeas_validate_thesis(thesis) ==
    IF thesis = <<>> \/ Len(Strip(thesis)) < 10
    THEN FALSE
    ELSE LET sentences == StrippedSentences(thesis)
         IN  1 <= Len(sentences) /\ Len(sentences) <= 2

PickIdeas_validate(ed) == ed.thesis # <<>>

-----------------------------------------------------------------------------
(* Stage 2: Organize *)

TitleIntroduction == Chars("Introduction")
TitleConclusion == Chars("Conclusion")
TitleBodyParagraph(i) == Chars("Body Paragraph ") \o <<Digits[i + 1]>>

calculate_body_paragraphs(word_count) ==
    IF word_count <= 500 THEN 2
    ELSE IF word_count <= 800 THEN 3
    ELSE IF word_count <= 1200 THEN 4
    ELSE 5

get_ordinal(n) ==
    LET ordinals == <<"first", "second", "third", "fourth", "fifth">>
    IN  IF n <= Len(ordinals) THEN ordinals[n] ELSE "Nth"

\* an outline that gives every body paragraph the words of the whole body
generate_outline_whole_body(total_words) ==
    LET intro_words == RoundHalfEven(total_words, 8)
        body_words == total_words - intro_words - intro_words
        body == [i \in 1..calculate_body_paragraphs(total_words) |->
                    OutlineSection(TitleBodyParagraph(i), body_words, "")]
    IN  [set |-> TRUE,
         sections |->
            <<OutlineSection(TitleIntroduction, intro_words, "")>>
            \o body
            \o <<OutlineSection(TitleConclusion, intro_words, "")>>]

generate_outline(total_words) ==
    LET intro_words == RoundHalfEven(total_words, 8)
        conclusion_words == RoundHalfEven(total_words, 8)
        body_words == total_words - intro_words - conclusion_words
        body_para_count == calculate_body_paragraphs(total_words)
        words_per_body_para == RoundHalfEven(body_words, body_para_count)
        body == [i \in 1..body_para_count |->
                    OutlineSection(TitleBodyParagraph(i), words_per_body_para,
                        "What is your " \o get_ordinal(i)
                            \o " main argument supporting your thesis?")]
    IN  [set |-> TRUE,
         sections |->
            <<OutlineSection(TitleIntroduction, intro_words,
                "How will you introduce the topic and present your thesis?")>>
            \o body
            \o <<OutlineSection(TitleConclusion, conclusion_words,
                "How will you summarize and reinforce your thesis?")>>]

Organize_execute(ed) == [ed EXCEPT !.outline = generate_outline(ed.word_count)]

Organize_validate(ed) == ed.outline.set /\ Len(ed.outline.sections) > 0

-----------------------------------------------------------------------------
(* Stage 3: Write *)

generate_tree_prompts(section_title) ==
    LET title_lower == Lower(section_title)
    IN  IF Contains(title_lower, Chars("introduction"))
        THEN [T |-> "Topic/Hook sentence - How will you grab attention?",
              R |-> "Reasons preview - What main points will you cover?",
              E1 |-> "Explain context - What background does reader need?",
              E2 |-> "End with thesis - State your clear position"]
        ELSE IF Contains(title_lower, Chars("conclusion"))
        THEN [T |-> "Topic sentence - Restate thesis in new words",
              R |-> "Recap main reasons - Summarize key arguments",
              E1 |-> "Explain significance - Why does this matter?",
              E2 |-> "End strong - Final thought or call to action"]
        ELSE [T |-> "Topic sentence - State main claim for this paragraph",
              R |-> "Reasons/Evidence - What supports this claim?",
              E1 |-> "Explain/Analyze - How does evidence prove your point?",
              E2 |-> "End/Transition - Connect to next paragraph"]

Write_execute(ed) ==
    [ed EXCEPT !.sections =
        [i \in 1..Len(ed.outline.sections) |->
            EssaySection(ed.outline.sections[i].title,
                         ed.outline.sections[i].word_count,
                         ed.outline.sections[i].guiding_question,
                         generate_tree_prompts(ed.outline.sections[i].title))]]

count_words(text) == Len(SplitWords(Strip(text)))

\* the assignments of WriteStage.add_content, for a valid 0-based index
Write_add_content(ed, section_index, content) ==
    LET actual == count_words(content)
    IN  [ed EXCEPT !.sections[section_index + 1] =
            [@ EXCEPT !.content = content,
                      !.actual_words = actual,
                      !.completed = (actual > 0)]]

AllCompleted(sections) == \A i \in 1..Len(sections) : sections[i].completed

Write_validate(ed) == ed.sections # <<>> /\ AllCompleted(ed.sections)

-----------------------------------------------------------------------------
(* Regular expressions of the revision passes, computed on character
   sequences. *)

\* s[a:b] of Python for 0 <= a, 0 <= b
Slice(s, a, b) == SubSeq(s, a + 1, Min(b, Len(s)))

\* ''.join over a sequence of sequences
RECURSIVE Flatten(_)
Flatten(ss) == IF ss = <<>> THEN <<>> ELSE Head(ss) \o Flatten(Tail(ss))

\* ", ".join(ss)
RECURSIVE JoinComma(_)
JoinComma(ss) ==
    IF ss = <<>> THEN <<>>
    ELSE IF Len(ss) = 1 THEN Head(ss)
    ELSE Head(ss) \o <<",", " ">> \o JoinComma(Tail(ss))

\* str(n) for n >= 0
RECURSIVE IntToChars(_)
IntToChars(n) ==
    IF n < 10 THEN <<Digits[n + 1]>>
    ELSE IntToChars(n \div 10) \o <<Digits[(n % 10) + 1]>>

\* length of the longest prefix of s made of \w characters
WordCharRun(s) == PrefixLen(s, IsWordChar)

\* length of the longest prefix of s made of \s characters
SpaceRun(s) == PrefixLen(s, IsSpace)

\* re.findall(r"\b\w+\b", s): the maximal runs of word characters
WordTokens(s) == Runs(s, IsWordChar)

\* re.findall(r'"[^"]+"', s) over the sorted positions q of the double quotes,
\* from the k-th on: leftmost non-overlapping quoted substrings
RECURSIVE QuotesFrom(_, _, _)
QuotesFrom(s, q, k) ==
    IF k >= Len(q) THEN <<>>
    ELSE IF q[k + 1] > q[k] + 1
    THEN <<SubSeq(s, q[k], q[k + 1])>> \o QuotesFrom(s, q, k + 2)
    ELSE QuotesFrom(s, q, k + 1)

FindQuotes(s) == QuotesFrom(s, Positions(s, LAMBDA i : s[i] = "\""), 1)

\* \b before position i (1-based) when s[i] is a word character
WordStartAt(s, i) == i = 1 \/ ~IsWordChar(s[i - 1])

\* a match of \b<verb>\s+\w+ed\b begins at position i
PassiveAt(s, i, verb) ==
    LET n == Len(verb)
        after == SubSeq(s, i + n, Len(s))
        sp == SpaceRun(after)
        word == SubSeq(after, sp + 1, sp + WordCharRun(SubSeq(after, sp + 1, Len(after))))
    IN  /\ i + n - 1 <= Len(s)
        /\ SubSeq(s, i, i + n - 1) = verb
        /\ WordStartAt(s, i)
        /\ sp >= 1
        /\ Len(word) >= 3
        /\ SubSeq(word, Len(word) - 1, Len(word)) = Chars("ed")

\* len(re.findall(r"\bwas\s+\w+ed\b|\bwere\s+\w+ed\b", s))
PassiveMatches(s) ==
    Cardinality({i \in 1..Len(s) :
        PassiveAt(s, i, Chars("was")) \/ PassiveAt(s, i, Chars("were"))})

\* length of the match of \b(\w+)\s+\1\b (IGNORECASE) beginning at i; 0 if none
RepeatAt(s, i) ==
    IF ~(IsWordChar(s[i]) /\ WordStartAt(s, i)) THEN 0
    ELSE LET rest == SubSeq(s, i, Len(s))
             n == WordCharRun(rest)
             after == SubSeq(rest, n + 1, Len(rest))
             sp == SpaceRun(after)
             next == SubSeq(after, sp + 1, Len(after))
             m == WordCharRun(next)
         IN  IF sp >= 1 /\ m = n
                /\ Lower(SubSeq(next, 1, m)) = Lower(SubSeq(rest, 1, n))
             THEN n + sp + m
             ELSE 0

\* re.findall(r"\b(\w+)\s+\1\b", s, re.IGNORECASE): the captured words, over
\* the sorted word starts w, from the k-th on; a match spans two words
RECURSIVE RepeatedFrom(_, _, _)
RepeatedFrom(s, w, k) ==
    IF k > Len(w) THEN <<>>
    ELSE IF RepeatAt(s, w[k]) > 0
    THEN <<SubSeq(s, w[k], w[k] + WordCharRun(SubSeq(s, w[k], Len(s))) - 1)>>
            \o RepeatedFrom(s, w, k + 2)
    ELSE RepeatedFrom(s, w, k + 1)

RepeatedMatches(s) ==
    RepeatedFrom(s, Positions(s, LAMBDA i : IsWordChar(s[i]) /\ WordStartAt(s, i)), 1)

\* re.search(r"[.!?]\s*[a-z]", s)
LowercaseAfterPunctuation(s) ==
    \E i \in 1..Len(s) :
        /\ s[i] \in {".", "!", "?"}
        /\ LET after == SubSeq(s, i + 1, Len(s))
               sp == SpaceRun(after)
           IN  sp < Len(after) /\ IsLowerLetter(after[sp + 1])

-----------------------------------------------------------------------------
(* Revision passes (core).  An issue's description keeps the message text,
   the word it quotes and the numbers it prints. *)

Desc(text, word, nums) == [text |-> text, word |-> word, nums |-> nums]

IsIntroOrConclusion(title) ==
    \/ Contains(Lower(title), Chars("introduction"))
    \/ Contains(Lower(title), Chars("conclusion"))

StopWords ==
    {Chars("the"), Chars("a"), Chars("an"), Chars("and"), Chars("or"),
     Chars("but"), Chars("in"), Chars("on"), Chars("at"), Chars("to"),
     Chars("for"), Chars("of"), Chars("with"), Chars("by")}

extract_keywords(text) ==
    SelectSeq(WordTokens(Lower(text)), LAMBDA w : Len(w) > 3 /\ w \notin StopWords)

\* overlap < 0.2, with overlap = |set(k1) & set(k2)| / len(k1), 0.0 for empty k1
OverlapBelowFifth(keywords1, keywords2) ==
    IF keywords1 = <<>> THEN TRUE
    ELSE 5 * Cardinality(SeqToSet(keywords1) \cap SeqToSet(keywords2)) < Len(keywords1)

ThesisFocusPass(ed) ==
    LET thesis_keywords == extract_keywords(ed.thesis)
        one(sec) ==
            IF IsIntroOrConclusion(sec.title) THEN <<>>
            ELSE IF OverlapBelowFifth(thesis_keywords, extract_keywords(sec.content))
            THEN <<RevisionIssue("thesis_focus",
                    Desc("Paragraph may not connect clearly to thesis", <<>>, <<>>),
                    sec.title, "medium")>>
            ELSE <<>>
    IN  Flatten([i \in 1..Len(ed.sections) |-> one(ed.sections[i])])

\* len(after_quote.strip().split(".")[0]) < 20 for the text after a quote
QuoteLacksAnalysis(content, quote) ==
    LET quote_index == IndexOf(content, quote) - 1
        after_quote == Slice(content, quote_index + Len(quote),
                             quote_index + Len(quote) + 100)
    IN  Len(Head(SplitOn(Strip(after_quote), "."))) < 20

StructurePass(ed) ==
    LET one(sec) ==
            IF sec.content = <<>> THEN <<>>
            ELSE LET sentences == StrippedSentences(sec.content)
                     topic ==
                        IF sentences # <<>>
                           /\ (\/ Head(Head(sentences)) \in {"\"", "'"}
                               \/ Contains(Head(sentences), <<"?">>))
                        THEN <<RevisionIssue("structure",
                                Desc("Consider starting with a clear topic sentence",
                                     <<>>, <<>>),
                                sec.title, "low")>>
                        ELSE <<>>
                     quotes == FindQuotes(sec.content)
                     lacking == SelectSeq(quotes,
                                    LAMBDA q : QuoteLacksAnalysis(sec.content, q))
                 IN  topic \o
                     [k \in 1..Len(lacking) |->
                        RevisionIssue("structure",
                            Desc("Quote needs more analysis/explanation", <<>>, <<>>),
                            sec.title, "medium")]
    IN  Flatten([i \in 1..Len(ed.sections) |-> one(ed.sections[i])])

strong_claim_words ==
    <<Chars("shows"), Chars("proves"), Chars("demonstrates"), Chars("leads to"),
      Chars("causes"), Chars("results in")>>

evidence_markers ==
    <<Chars("\""), Chars("example"), Chars("study"), Chars("research"),
      Chars("data"), Chars("according to"), Chars("statistics")>>

has_evidence(text) ==
    \E k \in 1..Len(evidence_markers) : Contains(Lower(text), evidence_markers[k])

\* fewer than 2 substantial clauses between quotes[i] and quotes[i+1]
QuotesLackAnalysisBetween(content, quotes, i) ==
    LET quote1_end == (IndexOf(content, quotes[i]) - 1) + Len(quotes[i])
        quote2_start == IndexOf(content, quotes[i + 1]) - 1
        between == Slice(content, quote1_end, quote2_start)
        analysis_sentences ==
            SelectSeq(StrippedSentences(between), LAMBDA x : Len(x) > 10)
    IN  Len(analysis_sentences) < 2

ArgumentEvidencePass(ed) ==
    LET one(sec) ==
            LET content == Lower(sec.content)
                claim(k) ==
                    LET claim_word == strong_claim_words[k]
                        claim_index == IndexOf(content, claim_word) - 1
                        surrounding == Slice(content, Max(0, claim_index - 100),
                                             claim_index + 200)
                    IN  IF Contains(content, claim_word) /\ ~has_evidence(surrounding)
                        THEN <<RevisionIssue("evidence",
                                Desc("Strong claim needs supporting evidence",
                                     claim_word, <<>>),
                                sec.title, "medium")>>
                        ELSE <<>>
                quotes == FindQuotes(content)
                pair(i) ==
                    IF QuotesLackAnalysisBetween(content, quotes, i)
                    THEN <<RevisionIssue("evidence",
                            Desc("Consecutive quotes need analysis between them",
                                 <<>>, <<>>),
                            sec.title, "medium")>>
                    ELSE <<>>
            IN  Flatten([k \in 1..Len(strong_claim_words) |-> claim(k)])
                \o (IF Len(quotes) >= 2
                    THEN Flatten([i \in 1..(Len(quotes) - 1) |-> pair(i)])
                    ELSE <<>>)
    IN  Flatten([i \in 1..Len(ed.sections) |-> one(ed.sections[i])])

transitions ==
    <<Chars("however"), Chars("therefore"), Chars("furthermore"), Chars("moreover"),
      Chars("in addition"), Chars("consequently"), Chars("thus"), Chars("meanwhile")>>

has_transition_words(text) ==
    \E k \in 1..Len(transitions) : Contains(Lower(text), transitions[k])

FlowCohesionPass(ed) ==
    LET one(i) ==
            LET sec == ed.sections[i]
                sentences == StrippedSentences(sec.content)
                long(j) ==
                    LET word_count == Len(SplitWords(sentences[j]))
                    IN  IF word_count > 35
                        THEN <<RevisionIssue("flow",
                                Desc("Long sentence - consider splitting",
                                     <<>>, <<word_count>>),
                                sec.title \o Chars(", sentence ") \o IntToChars(j),
                                "low")>>
                        ELSE <<>>
            IN  Flatten([j \in 1..Len(sentences) |-> long(j)])
                \o (IF 1 < i /\ i < Len(ed.sections)
                       /\ ~has_transition_words(sec.content)
                    THEN <<RevisionIssue("cohesion",
                            Desc("Consider adding transition words to connect ideas",
                                 <<>>, <<>>),
                            sec.title, "low")>>
                    ELSE <<>>)
    IN  Flatten([i \in 1..Len(ed.sections) |-> one(i)])

filler_phrases ==
    <<Chars("in general"), Chars("it should be noted"), Chars("actually"),
      Chars("basically"), Chars("literally")>>

\* the first j in range(len(words) - 2) with words[j] == words[j+1] or
\* words[j] == words[j+2], as a 1-based position; 0 when there is none
FirstRepetition(words) ==
    LET hits == {j \in 1..(Len(words) - 2) :
                    words[j] = words[j + 1] \/ words[j] = words[j + 2]}
    IN  IF hits = {} THEN 0 ELSE CHOOSE j \in hits : \A k \in hits : j <= k

StyleClarityPass(ed) ==
    LET one(sec) ==
            LET content == Lower(sec.content)
                filler(k) ==
                    IF Contains(content, filler_phrases[k])
                    THEN <<RevisionIssue("style",
                            Desc("Consider removing filler phrase",
                                 filler_phrases[k], <<>>),
                            sec.title, "low")>>
                    ELSE <<>>
                passive == PassiveMatches(content)
                words == SplitWords(content)
                rep == FirstRepetition(words)
            IN  Flatten([k \in 1..Len(filler_phrases) |-> filler(k)])
                \o (IF passive > 2
                    THEN <<RevisionIssue("style",
                            Desc("Heavy use of passive voice", <<>>, <<passive>>),
                            sec.title, "low")>>
                    ELSE <<>>)
                \o (IF rep > 0
                    THEN <<RevisionIssue("style",
                            Desc("Word repetition", words[rep], <<>>),
                            sec.title, "low")>>
                    ELSE <<>>)
    IN  Flatten([i \in 1..Len(ed.sections) |-> one(ed.sections[i])])

OverallLocation == Chars("Overall essay")

WordCountPass(ed) ==
    LET one(sec) ==
            LET target == sec.target_words
                actual == sec.actual_words
                \* deviation = abs(actual - target) / target if target > 0 else 0
                over20 == target > 0 /\ 5 * Abs(actual - target) > target
                over40 == target > 0 /\ 5 * Abs(actual - target) > 2 * target
            IN  IF over20
                THEN <<RevisionIssue("word_count",
                        Desc(IF actual > target THEN "Section is over target"
                                                ELSE "Section is under target",
                             <<>>, <<actual, target>>),
                        sec.title,
                        IF over40 THEN "medium" ELSE "low")>>
                ELSE <<>>
        total_actual == SumSeq([i \in 1..Len(ed.sections) |-> ed.sections[i].actual_words])
        over10 == ed.word_count > 0 /\ 10 * Abs(total_actual - ed.word_count) > ed.word_count
        over20 == ed.word_count > 0 /\ 5 * Abs(total_actual - ed.word_count) > ed.word_count
    IN  Flatten([i \in 1..Len(ed.sections) |-> one(ed.sections[i])])
        \o (IF over10
            THEN <<RevisionIssue("word_count",
                    Desc(IF total_actual > ed.word_count THEN "Essay is over target"
                                                          ELSE "Essay is under target",
                         <<>>, <<total_actual, ed.word_count>>),
                    OverallLocation,
                    IF over20 THEN "high" ELSE "medium")>>
            ELSE <<>>)

SpellCheckPass(ed) ==
    LET one(sec) ==
            LET content == sec.content
                repeated == RepeatedMatches(content)
            IN  (IF Contains(content, Chars("  "))
                 THEN <<RevisionIssue("mechanics",
                         Desc("Found double spaces", <<>>, <<>>), sec.title, "low")>>
                 ELSE <<>>)
                \o (IF repeated # <<>>
                    THEN <<RevisionIssue("mechanics",
                            Desc("Repeated words found", JoinComma(repeated), <<>>),
                            sec.title, "medium")>>
                    ELSE <<>>)
                \o (IF LowercaseAfterPunctuation(content)
                    THEN <<RevisionIssue("mechanics",
                            Desc("Check capitalization after punctuation", <<>>, <<>>),
                            sec.title, "medium")>>
                    ELSE <<>>)
    IN  Flatten([i \in 1..Len(ed.sections) |-> one(ed.sections[i])])

\* the list ReviseStage.execute collects from self.passes, in pass order
RunPasses(ed) ==
    ThesisFocusPass(ed) \o StructurePass(ed) \o ArgumentEvidencePass(ed)
        \o FlowCohesionPass(ed) \o StyleClarityPass(ed) \o WordCountPass(ed)
        \o SpellCheckPass(ed)

\* a run that adds its issues to the stored list
Revise_execute_keeping(ed) == [ed EXCEPT !.revision_passes = @ \o RunPasses(ed)]

\* ReviseStage.execute: all_issues starts empty and is stored whole
Revise_execute(ed) == [ed EXCEPT !.revision_passes = RunPasses(ed)]

\* a gate that lets every essay through
Revise_validate_lenient(ed) == TRUE

Revise_validate(ed) == ~HasHigh(ed.revision_passes)

-----------------------------------------------------------------------------
(* Inputs *)

\* deadlines, in half days on the model clock
DeadlineFar == 18
DeadlineSoon == 1

Iso(at) == [fmt |-> "iso", at |-> at]
Garbage == [fmt |-> "garbage", at |-> 0]

EssayParams(topic, essay_type, word_count, deadline) ==
    [topic |-> topic, essay_type |-> essay_type, word_count |-> word_count,
     deadline |-> deadline]

\* parameter bags a caller may construct an essay task with
EssayParamInputs ==
    {EssayParams(Chars(" T "), "opinion", 100, Iso(DeadlineFar)),
     EssayParams(Chars("T"), "analytical", 100, Iso(DeadlineSoon)),
     EssayParams(Chars("T"), "opinion", 5001, Iso(0)),
     EssayParams(Chars("  "), "report", 99, Garbage)}

ThesisValid == Chars("This is a valid thesis statement.")

ThesisInputs ==
    {<<>>, Chars("Short"), ThesisValid, Chars("One. Two. Three."),
     Chars("            ")}

ContentClaim == Chars("AA shows BB.")
ContentLong == Chars("valid ") \o Repeat(Chars("a "), 24)

ContentInputs == {Chars("  "), ContentClaim, ContentLong}

\* section indices a caller may pass: one below, the valid ones, one above
IndexInputs(sections) == -1..Len(sections)

\* inputs of the poc task
PocEssayParamInputs == {EssayParams(Chars(" T "), "opinion", 100, Iso(DeadlineFar))}

PocThesisInputs == {Chars("Short")}

PocContentInputs == {Chars("  "), ContentClaim}

PocIndexInputs(sections) == {-1, 0, Len(sections)}

\* largest id the model mints for an outline row given without one
MaxId == 6

\* the rows of the current outline, as the caller's edit grid holds them
OutlineRows(ed) ==
    [i \in 1..Len(ed.outline.sections) |->
        [title |-> ed.outline.sections[i].title,
         word_count |-> ed.outline.sections[i].word_count,
         guiding_question |-> ed.outline.sections[i].guiding_question,
         id |-> ed.outline.sections[i].id]]

ExtraRow == [title |-> Chars("Extra"), word_count |-> 50, guiding_question |-> "", id |-> 0]

\* a caller deletes the first row only from a grid of at least this many rows
MinRowsToDelete == 5

\* edits a caller may submit: the empty grid, the grid with its first row
\* deleted, the grid with one new row (no id) appended
OutlineEdits(ed, fresh) ==
    LET rows == OutlineRows(ed)
    IN  {<<>>}
        \cup (IF Len(rows) >= MinRowsToDelete THEN {Tail(rows)} ELSE {})
        \cup (IF fresh <= MaxId /\ \A i \in 1..Len(rows) : rows[i].title # ExtraRow.title
              THEN {rows \o <<ExtraRow>>} ELSE {})

-----------------------------------------------------------------------------
(* Call results *)

\* no stage's execute ran in the call
NoStage == <<>>

\* a call's outcome: its integer arguments, the exception raised ("none" if
\* it returned), its messages, the stage whose execute ran, and the payload
\* of reading calls
Returned(op, executed) ==
    [op |-> op, args |-> <<>>, err |-> "none", msgs |-> <<>>, executed |-> executed,
     completed |-> FALSE, chunk |-> <<>>, report |-> <<>>]

Raised(op, err, msgs) ==
    [op |-> op, args |-> <<>>, err |-> err, msgs |-> msgs, executed |-> NoStage,
     completed |-> FALSE, chunk |-> <<>>, report |-> <<>>]

\* the outcome r of a call that was given the section index idx
WithIndex(r, idx) == [r EXCEPT !.args = <<idx>>]

ReturnedChunk(op, completed, chunk) ==
    [op |-> op, args |-> <<>>, err |-> "none", msgs |-> <<>>, executed |-> NoStage,
     completed |-> completed, chunk |-> chunk, report |-> <<>>]

-----------------------------------------------------------------------------
(* EssayAssistantTask (core) *)

NumStages == 4

\* the error list of validate_params at time t
validate_params_errors(p, t) ==
    (IF Strip(p.topic) = <<>> THEN <<"Topic is required">> ELSE <<>>)
    \o (IF p.essay_type \notin {"opinion", "analytical", "comparative", "interpretive"}
        THEN <<"Valid essay type is required">> ELSE <<>>)
    \o (IF ~(100 <= p.word_count /\ p.word_count <= 5000)
        THEN <<"Word count must be between 100 and 5000">> ELSE <<>>)
    \o (IF p.deadline.fmt = "garbage" THEN <<"Invalid deadline format">>
        ELSE IF p.deadline.fmt # "iso" \/ p.deadline.at <= t
        THEN <<"Deadline must be in the future">>
        ELSE <<>>)

\* the assignments at the end of validate_params
StoreParams(ed, p) ==
    [ed EXCEPT !.topic = Strip(p.topic),
               !.essay_type = p.essay_type,
               !.word_count = p.word_count,
               !.deadline = <<p.deadline.at>>]

\* (deadline - now).days
TotalDays(deadline, t) == (deadline - t) \div 2

\* a timeline whose Revise stage starts without counting the days of Write
generate_timeline_overlapping(total_days) ==
    LET write == IF total_days >= 7 THEN Max(2, (6 * total_days) \div 10)
                                    ELSE Max(1, total_days - 2)
        revise == IF total_days >= 7 THEN Max(1, (3 * total_days) \div 10) ELSE 1
    IN  [total_days |-> total_days,
         stages |->
            <<[name |-> "Pick Ideas", days |-> 1, start_day |-> 1],
              [name |-> "Organize", days |-> 1, start_day |-> 2],
              [name |-> "Write", days |-> write, start_day |-> 3],
              [name |-> "Revise", days |-> revise, start_day |-> 3]>>]

generate_timeline(total_days) ==
    LET ideas == 1
        organize == 1
        write == IF total_days >= 7 THEN Max(2, (6 * total_days) \div 10)
                                    ELSE Max(1, total_days - 2)
        revise == IF total_days >= 7 THEN Max(1, (3 * total_days) \div 10) ELSE 1
    IN  [total_days |-> total_days,
         stages |->
            <<[name |-> "Pick Ideas", days |-> ideas, start_day |-> 1],
              [name |-> "Organize", days |-> organize, start_day |-> 1 + ideas],
              [name |-> "Write", days |-> write, start_day |-> 2 + ideas],
              [name |-> "Revise", days |-> revise, start_day |-> 2 + ideas + write]>>]

\* stage.execute(essay_data) of stage object number cs (0-based)
StageExecute(cs, ed) ==
    CASE cs = 0 -> ed
      [] cs = 1 -> Organize_execute(ed)
      [] cs = 2 -> Write_execute(ed)
      [] cs = 3 -> Revise_execute(ed)

\* the stage objects' completed flags after stage cs has executed and left
\* the essay data as after
StageExecuteFlags(cs, after, flags) ==
    CASE cs = 0 -> flags
      [] cs = 1 -> [flags EXCEPT ![1] = TRUE]
      [] cs = 2 -> flags
      [] cs = 3 -> [flags EXCEPT ![3] = ~HasHigh(after.revision_passes)]

StageValidate(cs, ed) ==
    CASE cs = 0 -> PickIdeas_validate(ed)
      [] cs = 1 -> Organize_validate(ed)
      [] cs = 2 -> Write_validate(ed)
      [] cs = 3 -> Revise_validate(ed)

\* _execute_current_stage, after essay data ed and with status st
ExecuteCurrentStage(op, ed, st) ==
    IF current_stage >= NumStages
    THEN /\ status' = COMPLETED
         /\ essay_data' = ed
         /\ stage_completed' = stage_completed
         /\ result' = Returned(op, NoStage)
    ELSE /\ status' = st
         /\ essay_data' = StageExecute(current_stage, ed)
         /\ stage_completed' = StageExecuteFlags(current_stage, essay_data', stage_completed)
         /\ result' = Returned(op, <<current_stage>>)

IsCoreEssay == impl = "core" /\ kind = "essay"

Start ==
    /\ IsCoreEssay
    /\ LET errors == validate_params_errors(params, now)
           ed == StoreParams(essay_data, params)
           total_days == TotalDays(params.deadline.at, now)
       IN  IF errors # <<>>
           THEN /\ result' = Raised("start", "ValueError", errors)
                /\ UNCHANGED <<status, essay_data, stage_completed, timeline>>
           ELSE IF total_days < 1
           THEN /\ essay_data' = ed
                /\ result' = Raised("start", "ValueError",
                                    <<"Not enough time to complete essay">>)
                /\ UNCHANGED <<status, stage_completed, timeline>>
           ELSE /\ timeline' = <<generate_timeline(total_days)>>
                /\ ExecuteCurrentStage("start", ed, ACTIVE)
    /\ UNCHANGED <<fixedVars, params, current_stage, readingVars>>

NextStage ==
    /\ IsCoreEssay
    /\ IF current_stage >= NumStages
       THEN \* self.stages[self.current_stage] is out of range
            /\ result' = Raised("next_stage", "IndexError", <<"list index out of range">>)
            /\ UNCHANGED <<status, current_stage, essay_data, stage_completed>>
       ELSE IF ~StageValidate(current_stage, essay_data)
       THEN /\ result' = Raised("next_stage", "ValueError",
                                <<"Cannot advance: stage not completed properly">>)
            /\ UNCHANGED <<status, current_stage, essay_data, stage_completed>>
       ELSE /\ current_stage' = current_stage + 1
            /\ IF current_stage + 1 >= NumStages
               THEN /\ status' = COMPLETED
                    /\ result' = Returned("next_stage", NoStage)
                    /\ UNCHANGED <<essay_data, stage_completed>>
               ELSE /\ essay_data' = StageExecute(current_stage + 1, essay_data)
                    /\ stage_completed' =
                          StageExecuteFlags(current_stage + 1, essay_data', stage_completed)
                    /\ result' = Returned("next_stage", <<current_stage + 1>>)
                    /\ UNCHANGED status
    /\ UNCHANGED <<fixedVars, params, timeline, readingVars>>

SetThesis(thesis) ==
    /\ IsCoreEssay
    /\ IF current_stage # 0
       THEN /\ result' = Raised("set_thesis", "ValueError",
                                <<"Can only set thesis in Pick Ideas stage">>)
            /\ UNCHANGED <<essay_data, stage_completed>>
       ELSE IF ~PickIdeas_validate_thesis(thesis)
       THEN /\ result' = Raised("set_thesis", "ValueError", <<"Invalid thesis statement">>)
            /\ UNCHANGED <<essay_data, stage_completed>>
       ELSE /\ essay_data' = [essay_data EXCEPT !.thesis = thesis]
            /\ stage_completed' = [stage_completed EXCEPT ![0] = TRUE]
            /\ result' = Returned("set_thesis", NoStage)
    /\ UNCHANGED <<fixedVars, params, status, current_stage, timeline, readingVars>>

AddSectionContent(section_index, content) ==
    /\ IsCoreEssay
    /\ IF current_stage # 2
       THEN /\ result' = WithIndex(Raised("add_section_content", "ValueError",
                                          <<"Can only add content in Write stage">>),
                                   section_index)
            /\ UNCHANGED <<essay_data, stage_completed>>
       ELSE IF ~(0 <= section_index /\ section_index < Len(essay_data.sections))
       THEN /\ result' = WithIndex(Raised("add_section_content", "IndexError",
                                          <<"Invalid section index">>),
                                   section_index)
            /\ UNCHANGED <<essay_data, stage_completed>>
       ELSE LET ed == Write_add_content(essay_data, section_index, content)
            IN  /\ essay_data' = ed
                /\ stage_completed' =
                      IF AllCompleted(ed.sections)
                      THEN [stage_completed EXCEPT ![2] = TRUE]
                      ELSE stage_completed
                /\ result' = WithIndex(Returned("add_section_content", NoStage),
                                       section_index)
    /\ UNCHANGED <<fixedVars, params, status, current_stage, timeline, readingVars>>

-----------------------------------------------------------------------------
(* EssayAssistantTask (poc).  Outline and essay sections carry an id; ids are
   positive integers, 0 stands for a missing id in caller data. *)

PocOutlineSection(title, word_count, guiding_question, id) ==
    [title |-> title, word_count |-> word_count,
     guiding_question |-> guiding_question, id |-> id]

PocEssaySection(title, target_words, guiding_question, id, tree_prompts) ==
    [title |-> title, target_words |-> target_words,
     guiding_question |-> guiding_question, content |-> <<>>,
     actual_words |-> 0, completed |-> FALSE, tree_prompts |-> tree_prompts,
     id |-> id]

PocRevisionIssue(issue_type, description, location, severity) ==
    [issue_type |-> issue_type, description |-> description,
     location |-> location, severity |-> severity, suggestion |-> <<>>]

IdsOf(secs) == {secs[i].id : i \in 1..Len(secs)}

\* str(uuid.uuid4())[:8]: k ids that no outline entry and no section carries
FreshIds(ed, k) ==
    LET used == IdsOf(ed.outline.sections) \cup IdsOf(ed.sections) \cup {0}
        top == CHOOSE m \in used : \A u \in used : u <= m
    IN  [j \in 1..k |-> top + j]

IsPocEssay == impl = "poc" /\ kind = "essay"

Poc_generate_initial_outline(ed) ==
    LET wc == ed.word_count
        ids == FreshIds(ed, 5)
    IN  [ed EXCEPT !.outline =
            [set |-> TRUE,
             sections |->
                <<PocOutlineSection(Chars("Introduction"), (wc * 15) \div 100,
                                    "Hook and Thesis", ids[1]),
                  PocOutlineSection(Chars("Body Paragraph 1"), (wc * 25) \div 100,
                                    "First Argument", ids[2]),
                  PocOutlineSection(Chars("Body Paragraph 2"), (wc * 25) \div 100,
                                    "Second Argument", ids[3]),
                  PocOutlineSection(Chars("Body Paragraph 3"), (wc * 20) \div 100,
                                    "Third Argument", ids[4]),
                  PocOutlineSection(Chars("Conclusion"), (wc * 15) \div 100,
                                    "Summary and Final Thought", ids[5])>>]]

Poc_get_tree_defaults(title) ==
    IF Contains(title, Chars("Intro"))
    THEN [T |-> "Topic/Hook", R |-> "Reasons preview", E1 |-> "Context", E2 |-> "Thesis"]
    ELSE IF Contains(title, Chars("Conclu"))
    THEN [T |-> "Restate Thesis", R |-> "Recap Reasons", E1 |-> "Significance",
          E2 |-> "Final Thought"]
    ELSE [T |-> "Topic Sentence", R |-> "Reasons/Evidence", E1 |-> "Explanation",
          E2 |-> "Transition"]

\* current_map = {s.id: s for s in sections}: for equal ids the last one wins
Poc_current_map(sections, id) ==
    LET hits == {i \in 1..Len(sections) : sections[i].id = id}
    IN  IF hits = {} THEN 0 ELSE CHOOSE i \in hits : \A j \in hits : j <= i

Poc_sync_outline_to_sections(ed) ==
    LET one(out_sec) ==
            LET k == Poc_current_map(ed.sections, out_sec.id)
            IN  IF k # 0
                THEN [ed.sections[k] EXCEPT
                        !.title = out_sec.title,
                        !.target_words = out_sec.word_count,
                        !.guiding_question = out_sec.guiding_question]
                ELSE PocEssaySection(out_sec.title, out_sec.word_count,
                                     out_sec.guiding_question, out_sec.id,
                                     Poc_get_tree_defaults(out_sec.title))
    IN  [ed EXCEPT !.sections =
            [i \in 1..Len(ed.outline.sections) |-> one(ed.outline.sections[i])]]

PocStart ==
    /\ IsPocEssay
    /\ essay_data' = [essay_data EXCEPT !.topic = params.topic,
                                        !.essay_type = params.essay_type,
                                        !.word_count = params.word_count]
    /\ status' = ACTIVE
    /\ result' = Returned("start", NoStage)
    /\ UNCHANGED <<fixedVars, params, current_stage, stage_completed, timeline,
                   readingVars>>

PocNextStage ==
    /\ IsPocEssay
    /\ IF current_stage = 0 /\ essay_data.thesis = <<>>
       THEN /\ result' = Raised("next_stage", "ValueError", <<"Please set a thesis first.">>)
            /\ UNCHANGED <<current_stage, essay_data>>
       ELSE IF current_stage = 1
               /\ (~essay_data.outline.set \/ essay_data.outline.sections = <<>>)
       THEN /\ result' = Raised("next_stage", "ValueError", <<"Outline cannot be empty.">>)
            /\ UNCHANGED <<current_stage, essay_data>>
       ELSE /\ essay_data' =
                  IF current_stage = 0 /\ ~essay_data.outline.set
                  THEN Poc_generate_initial_outline(essay_data)
                  ELSE IF current_stage = 1
                  THEN Poc_sync_outline_to_sections(essay_data)
                  ELSE essay_data
            /\ current_stage' =
                  IF current_stage < NumStages - 1 THEN current_stage + 1 ELSE current_stage
            /\ result' = Returned("next_stage", NoStage)
    /\ UNCHANGED <<fixedVars, params, status, stage_completed, timeline, readingVars>>

\* a retreat that forgets the guard at the first stage
Poc_prev_index_unguarded(idx) == idx - 1

\* the stage index prev_stage leaves
Poc_prev_index(idx) == IF idx > 0 THEN idx - 1 ELSE idx

PocPrevStage ==
    /\ IsPocEssay
    /\ current_stage' = Poc_prev_index(current_stage)
    /\ result' = Returned("prev_stage", NoStage)
    /\ UNCHANGED <<fixedVars, params, status, essay_data, stage_completed, timeline,
                   readingVars>>

PocSetThesis(text) ==
    /\ IsPocEssay
    /\ essay_data' = [essay_data EXCEPT !.thesis = text]
    /\ result' = Returned("set_thesis", NoStage)
    /\ UNCHANGED <<fixedVars, params, status, current_stage, stage_completed,
                   timeline, readingVars>>

\* update_outline(new_sections_data): rows are dicts with title, word_count,
\* guiding_question and id (0: no id given)
PocUpdateOutline(new_sections_data) ==
    /\ IsPocEssay
    /\ LET missing == SelectSeq([i \in 1..Len(new_sections_data) |-> i],
                                LAMBDA i : new_sections_data[i].id = 0)
           rank(i) == CHOOSE k \in 1..Len(missing) : missing[k] = i
           \* ids minted for the rows without one, and none of them a given id
           given == [essay_data EXCEPT !.sections = @ \o new_sections_data]
           minted == FreshIds(given, Len(missing))
           new_sections ==
              [i \in 1..Len(new_sections_data) |->
                  PocOutlineSection(new_sections_data[i].title,
                                    new_sections_data[i].word_count,
                                    new_sections_data[i].guiding_question,
                                    IF new_sections_data[i].id # 0
                                    THEN new_sections_data[i].id
                                    ELSE minted[rank(i)])]
       IN  essay_data' = [essay_data EXCEPT !.outline =
                              [set |-> TRUE, sections |-> new_sections]]
    /\ result' = Returned("update_outline", NoStage)
    /\ UNCHANGED <<fixedVars, params, status, current_stage, stage_completed,
                   timeline, readingVars>>

PocSaveSectionContent(idx, content) ==
    /\ IsPocEssay
    /\ essay_data' =
          IF 0 <= idx /\ idx < Len(essay_data.sections)
          THEN [essay_data EXCEPT !.sections[idx + 1] =
                   [@ EXCEPT !.content = content,
                             !.actual_words = Len(SplitWords(content)),
                             !.completed = TRUE]]
          ELSE essay_data
    /\ result' = WithIndex(Returned("save_section_content", NoStage), idx)
    /\ UNCHANGED <<fixedVars, params, status, current_stage, stage_completed,
                   timeline, readingVars>>

\* the issue list run_revision builds
Poc_revision_issues(ed) ==
    LET total_words == SumSeq([i \in 1..Len(ed.sections) |-> ed.sections[i].actual_words])
        \* abs(total_words - word_count) > word_count * 0.1
        overall ==
            IF 10 * Abs(total_words - ed.word_count) > ed.word_count
            THEN <<PocRevisionIssue("word_count",
                        Desc("Total words deviates from target", <<>>,
                             <<total_words, ed.word_count>>),
                        Chars("Overall"), "high")>>
            ELSE <<>>
        \* s.actual_words < s.target_words * 0.5
        short(sec) ==
            IF 2 * sec.actual_words < sec.target_words
            THEN <<PocRevisionIssue("word_count",
                        Desc("Section is too short", sec.title, <<>>),
                        sec.title, "medium")>>
            ELSE <<>>
    IN  overall \o Flatten([i \in 1..Len(ed.sections) |-> short(ed.sections[i])])

PocRunRevision ==
    /\ IsPocEssay
    /\ essay_data' = [essay_data EXCEPT !.revision_passes = Poc_revision_issues(essay_data)]
    /\ result' = Returned("run_revision", NoStage)
    /\ UNCHANGED <<fixedVars, params, status, current_stage, stage_completed,
                   timeline, readingVars>>

-----------------------------------------------------------------------------
(* ReadingAssistantTask (core).  params.texts is the caller's value: whether
   it is a list, and its items, each a str, a dict with a "text" key, or
   something else.  A missing title or id of a dict item is the empty text. *)

StrItem(text) == [form |-> "str", text |-> Chars(text), title |-> <<>>, id |-> <<>>]

DictItem(text, title, id) ==
    [form |-> "dict", text |-> Chars(text), title |-> Chars(title), id |-> Chars(id)]

OtherItem == [form |-> "other", text |-> <<>>, title |-> <<>>, id |-> <<>>]

\* seed is <<>> for None and <<n>> for the integer n
ReadingParams(is_list, items, seed, shuffle, per_paragraph) ==
    [is_list |-> is_list, texts |-> items, seed |-> seed,
     shuffle_each_round |-> shuffle,
     sentences_per_fallback_paragraph |-> per_paragraph]

DefaultSentences == 8

\* two sources of 3 paragraphs and of 1, read without shuffling
ParamsThreeAndOne ==
    ReadingParams(TRUE, <<StrItem("a\n\nb\n\nc"), StrItem("d")>>, <<>>, FALSE,
                  DefaultSentences)

ReadingParamInputs ==
    { ReadingParams(TRUE, <<StrItem("a\n\nb\n \nc"), StrItem("d")>>, <<1>>, TRUE,
                    DefaultSentences),
      ParamsThreeAndOne,
      ReadingParams(TRUE, <<DictItem("p. q! r?", "T", "s"), StrItem(" \n"),
                            DictItem("x\r\ry", "", "")>>, <<>>, TRUE, 2),
      ReadingParams(TRUE, <<StrItem("a\n\n\n\nb"), StrItem("c\r\nd\r\n\r\ne"),
                            StrItem("f")>>, <<>>, FALSE, DefaultSentences),
      ReadingParams(TRUE, <<StrItem(" "), StrItem("")>>, <<>>, TRUE, DefaultSentences),
      ReadingParams(TRUE, <<>>, <<>>, TRUE, DefaultSentences),
      ReadingParams(FALSE, <<>>, <<0>>, TRUE, DefaultSentences),
      ReadingParams(TRUE, <<StrItem("a"), OtherItem>>, <<0>>, TRUE, DefaultSentences),
      ReadingParams(TRUE, <<StrItem("p. q.")>>, <<0>>, TRUE, -1),
      ReadingParams(TRUE, <<StrItem("p. q.")>>, <<0>>, TRUE, 0) }

\* seeds the operating system's entropy may give an unseeded generator
EntropySeeds == 0..5

ReadingChunk(source_id, source_title, paragraph_index, total, text) ==
    [source_id |-> source_id, source_title |-> source_title,
     paragraph_index |-> paragraph_index,
     total_paragraphs_for_source |-> total, text |-> text]

\* re.sub(r"\r\n?", "\n", text)
NormalizeNewlines(text) ==
    LET kept == Positions(text, LAMBDA i :
                    ~(text[i] = "\n" /\ i > 1 /\ text[i - 1] = "\r"))
    IN  [k \in 1..Len(kept) |-> IF text[kept[k]] = "\r" THEN "\n" ELSE text[kept[k]]]

\* re.sub(r"\n{3,}", "\n\n", text): of a run of newlines the first two stay
CollapseNewlines(text) ==
    LET kept == Positions(text, LAMBDA i :
                    ~(i > 2 /\ text[i] = "\n" /\ text[i - 1] = "\n"
                            /\ text[i - 2] = "\n"))
    IN  [k \in 1..Len(kept) |-> text[kept[k]]]

\* position i lies in a match of r"\n\s*\n": between two newlines that only
\* white space separates
InBlankLine(text, i) ==
    /\ IsSpace(text[i])
    /\ \E a \in 1..i : \E b \in i..Len(text) :
          /\ a < b /\ text[a] = "\n" /\ text[b] = "\n"
          /\ \A j \in a..b : IsSpace(text[j])

\* [p.strip() for p in re.split(r"\n\s*\n", text) if p.strip()]
BlankLineParagraphs(text) ==
    LET pieces == RunsAt(text, LAMBDA i : ~InBlankLine(text, i))
        stripped == [k \in 1..Len(pieces) |-> Strip(pieces[k])]
    IN  SelectSeq(stripped, LAMBDA p : p # <<>>)

\* position i lies in a match of r"(?<=[.!?])\s+"
InSentenceGap(text, i) ==
    /\ IsSpace(text[i])
    /\ \E a \in 2..i :
          /\ text[a - 1] \in {".", "!", "?"}
          /\ \A j \in a..i : IsSpace(text[j])

\* re.split(r"(?<=[.!?])\s+", text); a text with no match is its only piece
SplitSentences(text) ==
    IF text = <<>> THEN << <<>> >>
    ELSE RunsAt(text, LAMBDA i : ~InSentenceGap(text, i))

RECURSIVE JoinSpace(_)
JoinSpace(ss) ==
    IF ss = <<>> THEN <<>>
    ELSE IF Len(ss) = 1 THEN Head(ss)
    ELSE Head(ss) \o <<" ">> \o JoinSpace(Tail(ss))

\* range(0, n, step) for a nonzero step
RangeFromZero(n, step) ==
    IF step < 0 THEN <<>>
    ELSE [k \in 1..((n + step - 1) \div step) |-> (k - 1) * step]

split_into_paragraphs(text, max_sent) ==
    LET paragraphs == BlankLineParagraphs(CollapseNewlines(NormalizeNewlines(text)))
        sentences == SplitSentences(paragraphs[1])
        firsts == RangeFromZero(Len(sentences), max_sent)
        grouped ==
            [k \in 1..Len(firsts) |->
                Strip(JoinSpace(SubSeq(sentences, firsts[k] + 1,
                                       Min(firsts[k] + max_sent, Len(sentences)))))]
    IN  IF Len(paragraphs) = 1 /\ Len(sentences) > max_sent
        THEN SelectSeq(grouped, LAMBDA p : p # <<>>)
        ELSE paragraphs

\* range() refuses a zero step
SplitRaises(text, max_sent) ==
    LET paragraphs == BlankLineParagraphs(CollapseNewlines(NormalizeNewlines(text)))
    IN  /\ Len(paragraphs) = 1
        /\ Len(SplitSentences(paragraphs[1])) > max_sent
        /\ max_sent = 0

IsBlank(text) == Strip(text) = <<>>

DefaultTitle(i) == Chars("Text ") \o IntToChars(i)
DefaultId(i) == Chars("text_") \o IntToChars(i)

\* the source validate_params makes of the i-th item (1-based)
NormalizedSource(p, i) ==
    LET item == p.texts[i]
    IN  [id |-> IF item.form = "dict" /\ item.id # <<>> THEN item.id ELSE DefaultId(i),
         title |-> IF item.form = "dict" /\ item.title # <<>>
                   THEN item.title ELSE DefaultTitle(i),
         paragraphs |-> split_into_paragraphs(item.text,
                                              p.sentences_per_fallback_paragraph)]

\* ReadingAssistantTask.validate_params: the first error it raises, <<>> if none
Reading_validate_error(p) ==
    LET items == p.texts
        bad == Positions(items, LAMBDA i :
                  \/ items[i].form = "other"
                  \/ /\ ~IsBlank(items[i].text)
                     /\ SplitRaises(items[i].text, p.sentences_per_fallback_paragraph))
    IN  IF ~p.is_list \/ items = <<>>
        THEN <<"Reading task requires \"texts\": list[str] or list[dict{text, title?, id?}]">>
        ELSE IF bad # <<>>
        THEN IF items[bad[1]].form = "other"
             THEN <<"Invalid item: must be str or dict with \"text\" key">>
             ELSE <<"range() arg 3 must not be zero">>
        ELSE IF \A i \in 1..Len(items) : IsBlank(items[i].text)
        THEN <<"No non-empty texts provided">>
        ELSE <<>>

Reading_normalized_sources(p) ==
    LET kept == Positions(p.texts, LAMBDA i : ~IsBlank(p.texts[i].text))
    IN  [k \in 1..Len(kept) |-> NormalizedSource(p, kept[k])]

Fact(n) == IF n <= 1 THEN 1 ELSE IF n = 2 THEN 2 ELSE IF n = 3 THEN 6 ELSE 24

RemoveAt(s, k) == SubSeq(s, 1, k - 1) \o SubSeq(s, k + 1, Len(s))

\* the permutation of items a factorial-base code stands for
RECURSIVE PermOf(_, _)
PermOf(code, items) ==
    IF items = <<>> THEN <<>>
    ELSE LET f == Fact(Len(items) - 1)
             k == (code \div f) + 1
         IN  <<items[k]>> \o PermOf(code % f, RemoveAt(items, k))

\* random.Random.shuffle: a permutation fixed by the seed and by how much of
\* the generator's stream has been drawn
Shuffle(order, r) == PermOf((r[1] + r[2]) % Fact(Len(order)), order)

\* a round that lists its sources last to first
LayerOrder_reversed(present, shuffled, r) ==
    [k \in 1..Len(present) |-> present[Len(present) + 1 - k]]

\* the order of one round: the sources that still have a paragraph, shuffled
\* in place when shuffling is on and there is more than one
LayerOrder(present, shuffled, r) == IF shuffled THEN Shuffle(present, r) ELSE present

\* _build_queue from layer p_idx (0-based) on; the queue and the generator
RECURSIVE BuildLayers(_, _, _, _, _)
BuildLayers(srcs, shuffle, p_idx, max_len, r) ==
    IF p_idx >= max_len THEN [queue |-> <<>>, rng |-> r]
    ELSE LET present == Positions(srcs, LAMBDA i : p_idx < Len(srcs[i].paragraphs))
             shuffled == shuffle /\ Len(present) > 1
             order == LayerOrder(present, shuffled, r)
             r2 == IF shuffled THEN <<r[1], r[2] + Len(present) - 1>> ELSE r
             layer == [k \in 1..Len(order) |->
                         ReadingChunk(srcs[order[k]].id, srcs[order[k]].title,
                                      p_idx + 1, Len(srcs[order[k]].paragraphs),
                                      srcs[order[k]].paragraphs[p_idx + 1])]
             rest == BuildLayers(srcs, shuffle, p_idx + 1, max_len, r2)
         IN  [queue |-> layer \o rest.queue, rng |-> rest.rng]

\* a queue cut at the shortest source
MaxParagraphs_shortest(srcs) ==
    CHOOSE m \in {Len(srcs[i].paragraphs) : i \in 1..Len(srcs)} :
        \A i \in 1..Len(srcs) : Len(srcs[i].paragraphs) >= m

MaxParagraphs(srcs) ==
    CHOOSE m \in {Len(srcs[i].paragraphs) : i \in 1..Len(srcs)} :
        \A i \in 1..Len(srcs) : Len(srcs[i].paragraphs) <= m

build_queue(srcs, shuffle, r) == BuildLayers(srcs, shuffle, 0, MaxParagraphs(srcs), r)

IsCoreReading == impl = "core" /\ kind = "reading"

\* a generator that takes its seed from the system whatever the parameters
StartSeeds_entropy(p) == EntropySeeds

\* random.Random(seed) if seed is not None else random.Random()
StartSeeds(p) == IF p.seed = <<>> THEN EntropySeeds ELSE {p.seed[1]}

\* ReadingAssistantTask.start: validate_params, _build_queue, _preview_next
ReadingStart ==
    /\ IsCoreReading
    /\ UNCHANGED <<fixedVars, params, essayVars>>
    /\ IF Reading_validate_error(params) # <<>>
       THEN /\ result' = Raised("start", "ValueError", Reading_validate_error(params))
            /\ UNCHANGED <<status, readingVars>>
       ELSE \E seed \in StartSeeds(params) :
              LET srcs == Reading_normalized_sources(params)
                  built == build_queue(srcs, params.shuffle_each_round, <<seed, 0>>)
              IN  /\ sources' = srcs
                  /\ shuffle_each_round' = params.shuffle_each_round
                  /\ queue' = built.queue
                  /\ rng' = built.rng
                  /\ current_index' = 0
                  /\ UNCHANGED current_source_idx
                  /\ status' = IF built.queue = <<>> THEN COMPLETED ELSE ACTIVE
                  /\ result' = ReturnedChunk("start", built.queue = <<>>, <<>>)

\* a delivery that hands out the first chunk again
Reading_chunk_at_first(q, idx) == q[1]

\* chunk = self.queue[self.current_index]
Reading_chunk_at(q, idx) == q[idx + 1]

\* ReadingAssistantTask.get_next_chunk
GetNextChunk ==
    /\ IsCoreReading
    /\ UNCHANGED <<fixedVars, params, essayVars,
                   sources, queue, current_source_idx, shuffle_each_round, rng>>
    /\ IF current_index >= Len(queue)
       THEN /\ status' = COMPLETED
            /\ current_index' = current_index
            /\ result' = ReturnedChunk("get_next_chunk", TRUE, <<>>)
       ELSE /\ current_index' = current_index + 1
            /\ status' = IF current_index' >= Len(queue) THEN COMPLETED ELSE status
            /\ result' = ReturnedChunk("get_next_chunk", status' = COMPLETED,
                                       <<Reading_chunk_at(queue, current_index)>>)

\* the four fields a preview gives of a chunk: not its text
ChunkMeta(c) ==
    [source_id |-> c.source_id, source_title |-> c.source_title,
     paragraph_index |-> c.paragraph_index,
     total_paragraphs_for_source |-> c.total_paragraphs_for_source]

\* a preview that describes the chunk after the next one
Reading_next_meta_ahead(q, idx) ==
    IF idx + 1 < Len(q) THEN <<ChunkMeta(q[idx + 2])>> ELSE <<>>

\* next_meta of get_reading_status: None once every chunk is delivered
Reading_next_meta(q, idx) ==
    IF idx < Len(q) THEN <<ChunkMeta(q[idx + 1])>> ELSE <<>>

\* ReadingAssistantTask.get_reading_status: reads only; the counts it reports
\* and the preview of the chunk next in line
GetReadingStatus ==
    /\ IsCoreReading
    /\ UNCHANGED <<fixedVars, params, essayVars, status, readingVars>>
    /\ result' =
          [ReturnedChunk("get_reading_status", FALSE,
                         Reading_next_meta(queue, current_index))
             EXCEPT !.report =
                <<[status |-> status,
                   sources |-> [i \in 1..Len(sources) |->
                                  [id |-> sources[i].id, title |-> sources[i].title,
                                   paragraphs |-> Len(sources[i].paragraphs)]],
                   delivered |-> current_index,
                   remaining |-> Max(0, Len(queue) - current_index),
                   total_chunks |-> Len(queue)]>>]

-----------------------------------------------------------------------------
(* Serialized state of the poc tasks.  A dict is a record of its keys; None
   is <<>> and a present value v is <<v>> where the code tests for None. *)

\* TaskStatus.<member>.value
TaskStatus_value(st) ==
    CASE st = INITIALIZED -> "initialized"
      [] st = ACTIVE -> "active"
      [] st = COMPLETED -> "completed"

\* TaskStatus(value): the member with that value
TaskStatus(value) ==
    CHOOSE st \in {INITIALIZED, ACTIVE, COMPLETED} : TaskStatus_value(st) = value

OutlineSection_to_dict(s) ==
    [title |-> s.title, word_count |-> s.word_count,
     guiding_question |-> s.guiding_question, id |-> s.id]

\* id = data.get("id") or str(uuid.uuid4())[:8]
OutlineSection_from_dict(data, minted) ==
    PocOutlineSection(data.title, data.word_count, data.guiding_question,
                      IF data.id # 0 THEN data.id ELSE minted)

\* self.outline.to_dict() if self.outline else None
Outline_to_dict(outline) ==
    IF outline.set
    THEN <<[sections |-> [i \in 1..Len(outline.sections) |->
                             OutlineSection_to_dict(outline.sections[i])]]>>
    ELSE <<>>

\* Outline.from_dict: None for no data, else the sections rebuilt one by one
Outline_from_dict(data, used) ==
    IF data = <<>>
    THEN NoOutline
    ELSE LET rows == data[1].sections
             top == CHOOSE m \in used \cup {0} : \A u \in used \cup {0} : u <= m
         IN  [set |-> TRUE,
              sections |-> [i \in 1..Len(rows) |->
                              OutlineSection_from_dict(rows[i], top + i)]]

EssaySection_to_dict(s) ==
    [title |-> s.title, target_words |-> s.target_words,
     guiding_question |-> s.guiding_question, content |-> s.content,
     actual_words |-> s.actual_words, completed |-> s.completed,
     tree_prompts |-> s.tree_prompts, id |-> s.id]

\* a restore that resets the text of a section
EssaySection_from_dict_blank(data) ==
    [PocEssaySection(data.title, data.target_words, data.guiding_question, data.id,
                     data.tree_prompts)
        EXCEPT !.actual_words = data.actual_words, !.completed = data.completed]

EssaySection_from_dict(data) ==
    [PocEssaySection(data.title, data.target_words, data.guiding_question, data.id,
                     data.tree_prompts)
        EXCEPT !.content = data.content,
               !.actual_words = data.actual_words,
               !.completed = data.completed]

RevisionIssue_to_dict(i) ==
    [issue_type |-> i.issue_type, description |-> i.description,
     location |-> i.location, severity |-> i.severity, suggestion |-> i.suggestion]

RevisionIssue_from_dict(data) ==
    [PocRevisionIssue(data.issue_type, data.description, data.location, data.severity)
        EXCEPT !.suggestion = data.suggestion]

\* deadline.isoformat() if deadline else None, and datetime.fromisoformat
EssayData_to_dict(ed) ==
    [topic |-> ed.topic, essay_type |-> ed.essay_type, word_count |-> ed.word_count,
     deadline |-> IF ed.deadline = <<>> THEN <<>> ELSE <<Iso(ed.deadline[1])>>,
     thesis |-> ed.thesis, thesis_suggestions |-> ed.thesis_suggestions,
     outline |-> Outline_to_dict(ed.outline),
     sections |-> [i \in 1..Len(ed.sections) |-> EssaySection_to_dict(ed.sections[i])],
     revision_passes |-> [i \in 1..Len(ed.revision_passes) |->
                            RevisionIssue_to_dict(ed.revision_passes[i])]]

EssayData_from_dict(data) ==
    [topic |-> data.topic, essay_type |-> data.essay_type,
     word_count |-> data.word_count,
     deadline |-> IF data.deadline = <<>> THEN <<>> ELSE <<data.deadline[1].at>>,
     thesis |-> data.thesis, thesis_suggestions |-> data.thesis_suggestions,
     outline |-> Outline_from_dict(data.outline,
                    IdsOf(data.sections)
                    \cup (IF data.outline = <<>> THEN {}
                          ELSE IdsOf(data.outline[1].sections))),
     sections |-> [i \in 1..Len(data.sections) |-> EssaySection_from_dict(data.sections[i])],
     revision_passes |-> [i \in 1..Len(data.revision_passes) |->
                            RevisionIssue_from_dict(data.revision_passes[i])]]

\* the task object, field by field
TaskObject ==
    [id |-> task_id, kind |-> kind, created_at |-> created_at, status |-> status,
     params |-> params, current_stage_idx |-> current_stage, essay_data |-> essay_data,
     sources |-> sources, current_source_idx |-> current_source_idx]

\* the identifier Task.__init__ mints when it is given none
NewId == "task_2"

\* Task.__init__(params, task_id, status) at the instant clock
Task_init(given_id, status_, clock, params_) ==
    [id |-> IF given_id # "" THEN given_id ELSE NewId,
     created_at |-> clock,
     status |-> status_,
     params |-> params_]

\* EssayAssistantTask.to_state
Essay_to_state(task) ==
    [id |-> task.id, task_type |-> "essay", params |-> task.params,
     status |-> TaskStatus_value(task.status),
     current_stage_idx |-> task.current_stage_idx,
     essay_data |-> EssayData_to_dict(task.essay_data)]

\* EssayAssistantTask.from_state at the instant clock
Essay_from_state(state, clock) ==
    LET base == Task_init(state.id, TaskStatus(state.status), clock, state.params)
    IN  [id |-> base.id, kind |-> "essay", created_at |-> base.created_at,
         status |-> base.status, params |-> base.params,
         current_stage_idx |-> state.current_stage_idx,
         essay_data |-> EssayData_from_dict(state.essay_data),
         sources |-> <<>>, current_source_idx |-> <<>>]

-----------------------------------------------------------------------------
(* ReadingAssistantTask (poc): one cursor per source and a focused source.
   Its parameter bags are those of the core task; it reads only the texts. *)

\* text.split('\n\n'): a run of n newlines is cut after every second one
SplitOnBlank(s) ==
    LET isNl(i) == i >= 1 /\ i <= Len(s) /\ s[i] = "\n"
        runStart(i) == CHOOSE j \in 1..i :
                          /\ \A k \in j..i : isNl(k)
                          /\ ~isNl(j - 1)
        cuts == Positions(s, LAMBDA i : /\ isNl(i) /\ isNl(i + 1)
                                        /\ (i - runStart(i)) % 2 = 0)
        from(k) == IF k = 1 THEN 1 ELSE cuts[k - 1] + 2
        to(k) == IF k = Len(cuts) + 1 THEN Len(s) ELSE cuts[k] - 1
    IN  [k \in 1..(Len(cuts) + 1) |-> SubSeq(s, from(k), to(k))]

PocReadingSource(id_, title, paragraphs) ==
    [id |-> id_, title |-> title, paragraphs |-> paragraphs, current_index |-> 0]

\* the source start makes of the i-th text (1-based)
Poc_source_of(p, i) ==
    LET t == p.texts[i]
        pieces == SplitOnBlank(t.text)
        kept == SelectSeq(pieces, LAMBDA x : Strip(x) # <<>>)
    IN  PocReadingSource(Chars("src_") \o IntToChars(i - 1),
                         IF t.form = "dict" /\ t.title # <<>> THEN t.title
                         ELSE DefaultTitle(i),
                         [k \in 1..Len(kept) |-> Strip(kept[k])])

PocReadingParamInputs ==
    { ReadingParams(TRUE, <<StrItem("a\n\nb"), StrItem("c")>>, <<>>, TRUE,
                    DefaultSentences),
      ReadingParams(TRUE, <<DictItem("x\n\n\ny\n\n z ", "T", ""), StrItem(" "),
                            StrItem("q")>>, <<>>, TRUE, DefaultSentences),
      ReadingParams(TRUE, <<>>, <<>>, TRUE, DefaultSentences) }

\* sources a task may hold: a further start is not made beyond them
MaxSources == 6

IsPocReading == impl = "poc" /\ kind = "reading"

HasUnread(src) == src.current_index < Len(src.paragraphs)

\* ReadingAssistantTask.start (poc): every call appends the sources again
PocReadingStart ==
    /\ IsPocReading
    /\ Len(sources) + Len(params.texts) <= MaxSources
    /\ sources' = sources \o [i \in 1..Len(params.texts) |-> Poc_source_of(params, i)]
    /\ IF sources' # <<>>
       THEN current_source_idx' = <<0>> /\ status' = ACTIVE
       ELSE UNCHANGED <<current_source_idx, status>>
    /\ result' = Returned("start", NoStage)
    /\ UNCHANGED <<fixedVars, params, essayVars, queue, current_index,
                   shuffle_each_round, rng>>

\* get_current_chunk: None, the paragraph under the focused source's cursor,
\* or the end marker of the focused source
Poc_current_chunk(srcs, focus) ==
    IF focus = <<>>
    THEN <<>>
    ELSE LET src == srcs[focus[1] + 1]
         IN  IF HasUnread(src)
             THEN <<[source_title |-> src.title,
                     text |-> src.paragraphs[src.current_index + 1],
                     para_num |-> src.current_index + 1,
                     total_paras |-> Len(src.paragraphs),
                     is_finished |-> FALSE]>>
             ELSE <<[source_title |-> src.title,
                     text |-> Chars("End of text."),
                     para_num |-> 0, total_paras |-> 0,
                     is_finished |-> TRUE]>>

PocGetCurrentChunk ==
    /\ IsPocReading
    /\ LET chunk == Poc_current_chunk(sources, current_source_idx)
       IN  result' = ReturnedChunk("get_current_chunk",
                                   chunk # <<>> /\ chunk[1].is_finished, chunk)
    /\ UNCHANGED <<fixedVars, params, essayVars, status, readingVars>>

\* a switch that moves to the neighbour whether or not it has anything unread
Poc_switch_focus_next(srcs, start) == (start + 1) % Len(srcs)

\* the 'switch' search: the first source after start, in cyclic order and
\* start itself last, that has an unread paragraph; start when there is none
Poc_switch_focus(srcs, start) ==
    LET n == Len(srcs)
        hits == {i \in 1..n : HasUnread(srcs[((start + i) % n) + 1])}
    IN  IF hits = {} THEN start
        ELSE (start + (CHOOSE i \in hits : \A j \in hits : i <= j)) % n

AdvanceModes == {"switch", "continue", "skip"}

\* a step that moves the cursor whether or not a paragraph is left
Poc_step_past_end(srcs, cur) == [srcs EXCEPT ![cur + 1].current_index = @ + 1]

\* a step that never moves the cursor
Poc_step_never(srcs, cur) == srcs

\* if current_src.current_index < len(current_src.paragraphs):
\*     current_src.current_index += 1
Poc_step(srcs, cur) ==
    IF HasUnread(srcs[cur + 1])
    THEN [srcs EXCEPT ![cur + 1].current_index = @ + 1]
    ELSE srcs

\* advance(mode)
PocAdvance(mode) ==
    /\ IsPocReading
    /\ IF current_source_idx = <<>>
       THEN UNCHANGED <<sources, current_source_idx>>
       ELSE LET cur == current_source_idx[1]
                stepped == Poc_step(sources, cur)
            IN  /\ sources' = stepped
                /\ current_source_idx' =
                      IF mode = "switch"
                         \/ (mode = "continue" /\ ~HasUnread(stepped[cur + 1]))
                      THEN <<Poc_switch_focus(stepped, cur)>>
                      ELSE current_source_idx
    /\ result' = [Returned("advance", NoStage) EXCEPT !.msgs = <<mode>>]
    /\ UNCHANGED <<fixedVars, params, essayVars, status, queue, current_index,
                   shuffle_each_round, rng>>

ReadingSource_to_dict(s) ==
    [id |-> s.id, title |-> s.title, paragraphs |-> s.paragraphs,
     current_index |-> s.current_index]

ReadingSource_from_dict(data) ==
    [PocReadingSource(data.id, data.title, data.paragraphs)
        EXCEPT !.current_index = data.current_index]

\* ReadingAssistantTask.to_state (poc)
Reading_to_state(task) ==
    [id |-> task.id, task_type |-> "reading", params |-> task.params,
     status |-> TaskStatus_value(task.status),
     current_source_idx |-> task.current_source_idx,
     sources |-> [i \in 1..Len(task.sources) |-> ReadingSource_to_dict(task.sources[i])]]

\* ReadingAssistantTask.from_state (poc) at the instant clock
Reading_from_state(state, clock) ==
    LET base == Task_init(state.id, TaskStatus(state.status), clock, state.params)
    IN  [id |-> base.id, kind |-> "reading", created_at |-> base.created_at,
         status |-> base.status, params |-> base.params,
         current_stage_idx |-> 0, essay_data |-> EssayData,
         sources |-> [i \in 1..Len(state.sources) |->
                         ReadingSource_from_dict(state.sources[i])],
         current_source_idx |-> state.current_source_idx]

\* task.to_state() of either poc task
to_state(task) ==
    IF task.kind = "essay" THEN Essay_to_state(task) ELSE Reading_to_state(task)

task_from_state(state, clock) ==
    IF state.task_type = "essay" THEN Essay_from_state(state, clock)
    ELSE Reading_from_state(state, clock)

\* latest instant of the clock at which a record is restored
MaxClock == 1

\* the instants datetime.now() may give to a call made now
ClockReadings == {t \in {now, now + 1} : t <= MaxClock}

\* the task is replaced by the one restored from its serialized record
\* (sync_tasks_from_db after persist_task_state)
Restore(clock) ==
    LET task == task_from_state(to_state(TaskObject), clock)
    IN  /\ now' = clock
        /\ task_id' = task.id
        /\ kind' = task.kind
        /\ created_at' = task.created_at
        /\ status' = task.status
        /\ params' = task.params
        /\ current_stage' = task.current_stage_idx
        /\ essay_data' = task.essay_data
        /\ sources' = task.sources
        /\ current_source_idx' = task.current_source_idx
        /\ result' = Returned("from_state", NoStage)
        /\ UNCHANGED <<impl, stage_completed, timeline, queue, current_index,
                       shuffle_each_round, rng, tasks, sibling>>

PocEssayRestore(clock) == IsPocEssay /\ Restore(clock)

PocReadingRestore(clock) == IsPocReading /\ Restore(clock)

-----------------------------------------------------------------------------
(* Specification *)

NoResult == Returned("new", NoStage)

\* f"task_{uuid.uuid4().hex[:9]}": the identifier minted for a new task
FirstId == "task_1"

\* Task.__init__ and the task classes' __init__
InitTask ==
    /\ \/ impl = "core" /\ kind = "essay" /\ params \in EssayParamInputs
       \/ impl = "poc" /\ kind = "essay" /\ params \in PocEssayParamInputs
       \/ impl = "core" /\ kind = "reading" /\ params \in ReadingParamInputs
       \/ impl = "poc" /\ kind = "reading" /\ params \in PocReadingParamInputs
    /\ status = INITIALIZED
    /\ current_stage = 0
    /\ essay_data = EssayData
    /\ stage_completed = [i \in 0..(NumStages - 1) |-> FALSE]
    /\ timeline = <<>>
    /\ sources = <<>>
    /\ queue = <<>>
    /\ current_index = 0
    /\ current_source_idx = <<>>
    /\ shuffle_each_round = TRUE
    /\ rng = <<0, 0>>

Init ==
    /\ now = 0
    /\ task_id = FirstId
    /\ tasks = {FirstId}
    /\ sibling = <<>>
    /\ created_at = now
    /\ result = NoResult
    /\ InitTask

-----------------------------------------------------------------------------
(* TaskManager: the registry of tasks.  The task of the variables above is
   stored under task_id; a second task, a reading task given no texts, is
   stored under SiblingId once create_task has made it. *)

SiblingId == "task_2s"

\* an identifier no task was ever given
UnknownId == "task_0"

IdInputs == {FirstId, SiblingId, UnknownId}

TypeInputs == {"reading", "quiz"}

SiblingParams == ReadingParams(TRUE, <<>>, <<>>, TRUE, DefaultSentences)

\* ReadingAssistantTask(params) as constructed
SiblingTask == [status |-> INITIALIZED, queue |-> <<>>, current_index |-> 0]

\* self.type = self.__class__.__name__
Task_type(k) == IF k = "essay" THEN "EssayAssistantTask" ELSE "ReadingAssistantTask"

\* what every method of the task objects may assign
taskVars == <<params, status, essayVars, readingVars>>

\* the outcome r of a call that was given the identifier id
WithId(r, id) == [r EXCEPT !.args = <<id>>]

\* TaskManager.create_task: TaskFactory.create_task, then the task is stored
\* under the identifier it minted
MgrCreateTask(type_) ==
    /\ sibling = <<>>
    /\ IF impl = "core" /\ type_ \notin {"essay", "reading"}
       THEN /\ result' = Raised("create_task", "ValueError", <<"Unknown task type">>)
            /\ UNCHANGED <<tasks, sibling>>
       ELSE /\ sibling' = <<SiblingTask>>
            /\ tasks' = tasks \cup {SiblingId}
            /\ result' = WithId(Returned("create_task", NoStage), SiblingId)
    /\ UNCHANGED <<impl, kind, task_id, created_at, now, taskVars>>

\* TaskManager.get_task: core raises KeyError for an identifier it does not
\* hold, poc answers self.tasks.get(id_)
get_task(impl_, stored, id) ==
    IF id \in stored
    THEN [WithId(Returned("get_task", NoStage), id) EXCEPT !.report = <<id>>]
    ELSE IF impl_ = "core"
         THEN WithId(Raised("get_task", "KeyError", <<"Task not found">>), id)
         ELSE WithId(Returned("get_task", NoStage), id)

MgrGetTask(id) ==
    /\ result' = get_task(impl, tasks, id)
    /\ UNCHANGED <<fixedVars, taskVars>>

\* the call failed in get_task
NotFound(op, id) ==
    /\ result' = WithId(Raised(op, "KeyError", <<"Task not found">>), id)
    /\ UNCHANGED <<fixedVars, taskVars>>

\* start of the second task: its parameters hold no texts
SiblingStart ==
    /\ result' = WithId(Raised("start_task", "ValueError",
                               Reading_validate_error(SiblingParams)), SiblingId)
    /\ UNCHANGED <<fixedVars, taskVars>>

\* get_next_chunk of the second task
SiblingGetNextChunk ==
    LET t == sibling[1]
    IN  /\ sibling' = <<[t EXCEPT !.status = COMPLETED]>>
        /\ result' = WithId(ReturnedChunk("advance_task", TRUE, <<>>), SiblingId)
        /\ UNCHANGED <<impl, kind, task_id, created_at, now, tasks, taskVars>>

\* TaskManager.start_task (core): get_task, then task.start()
MgrStartTask(id) ==
    /\ impl = "core"
    /\ IF get_task(impl, tasks, id).err # "none"
       THEN NotFound("start_task", id)
       ELSE IF id = task_id
            THEN IF kind = "essay" THEN Start ELSE ReadingStart
            ELSE SiblingStart

\* TaskManager.advance_task (core): get_task, then next_stage of an essay
\* task and get_next_chunk of a reading task
MgrAdvanceTask(id) ==
    /\ impl = "core"
    /\ IF get_task(impl, tasks, id).err # "none"
       THEN NotFound("advance_task", id)
       ELSE IF id = task_id
            THEN IF kind = "essay" THEN NextStage ELSE GetNextChunk
            ELSE SiblingGetNextChunk

\* one entry of get_all_tasks: id, type and status (core lists created_at
\* too, which no call assigns)
TaskEntry(id) ==
    [id |-> id,
     type |-> IF id = task_id THEN Task_type(kind) ELSE Task_type("reading"),
     status |-> TaskStatus_value(IF id = task_id THEN status ELSE sibling[1].status)]

\* TaskManager.get_all_tasks: the stored tasks in the order they were stored
get_all_tasks(stored) ==
    (IF FirstId \in stored THEN <<TaskEntry(FirstId)>> ELSE <<>>)
    \o (IF SiblingId \in stored THEN <<TaskEntry(SiblingId)>> ELSE <<>>)

MgrGetAllTasks ==
    /\ result' = [Returned("get_all_tasks", NoStage)
                    EXCEPT !.report = get_all_tasks(tasks)]
    /\ UNCHANGED <<fixedVars, taskVars>>

\* what delete_task answers: core True or False, poc nothing
delete_report(impl_, found) == IF impl_ = "core" THEN <<found>> ELSE <<>>

\* TaskManager.delete_task
MgrDeleteTask(id) ==
    /\ tasks' = tasks \ {id}
    /\ result' = [WithId(Returned("delete_task", NoStage), id)
                    EXCEPT !.report = delete_report(impl, id \in tasks)]
    /\ UNCHANGED <<impl, kind, task_id, created_at, now, sibling, taskVars>>

NextCoreEssay ==
    \/ Start
    \/ NextStage
    \/ \E thesis \in ThesisInputs : SetThesis(thesis)
    \/ \E content \in ContentInputs :
         \E section_index \in IndexInputs(essay_data.sections) :
            AddSectionContent(section_index, content)

NextPocEssay ==
    \/ PocStart
    \/ PocNextStage
    \/ PocPrevStage
    \/ \E text \in PocThesisInputs : PocSetThesis(text)
    \/ \E rows \in (IF IsPocEssay
                    THEN OutlineEdits(essay_data, FreshIds(essay_data, 1)[1])
                    ELSE {}) :
         PocUpdateOutline(rows)
    \/ \E content \in PocContentInputs :
         \E idx \in PocIndexInputs(essay_data.sections) :
            PocSaveSectionContent(idx, content)
    \/ PocRunRevision
    \/ \E clock \in ClockReadings : PocEssayRestore(clock)

NextCoreReading ==
    \/ ReadingStart
    \/ GetNextChunk
    \/ GetReadingStatus

NextPocReading ==
    \/ PocReadingStart
    \/ PocGetCurrentChunk
    \/ \E mode \in AdvanceModes : PocAdvance(mode)
    \/ \E clock \in ClockReadings : PocReadingRestore(clock)

\* the calls a client makes on the manager
NextManager ==
    \/ \E type_ \in TypeInputs : MgrCreateTask(type_)
    \/ \E id \in IdInputs : MgrGetTask(id)
    \/ \E id \in IdInputs : MgrStartTask(id)
    \/ \E id \in IdInputs : MgrAdvanceTask(id)
    \/ MgrGetAllTasks
    \/ \E id \in IdInputs : MgrDeleteTask(id)

Next == NextCoreEssay \/ NextPocEssay \/ NextCoreReading \/ NextPocReading

Spec == Init /\ [][Next]_vars

\* the core essay task alone
InitCore == Init /\ IsCoreEssay
SpecCore == InitCore /\ [][NextCoreEssay]_vars

\* the poc essay task alone
InitPoc == Init /\ IsPocEssay
SpecPoc == InitPoc /\ [][NextPocEssay]_vars

\* the core reading task alone
InitReading == Init /\ IsCoreReading
SpecReading == InitReading /\ [][NextCoreReading]_vars

\* the poc reading task alone
InitPocReading == Init /\ IsPocReading
SpecPocReading == InitPocReading /\ [][NextPocReading]_vars

\* a manager holding a reading task
InitManager == Init /\ kind = "reading"
SpecManager == InitManager /\ [][NextManager]_vars

\* the word counts validate_params accepts: 100 <= word_count <= 5000
MinWordCount == 100
MaxWordCount == 5000
WordCounts == MinWordCount..MaxWordCount

\* an essay task of either implementation, given any accepted word count,
\* taken from its construction to the generation of its outline and on
InitOutline ==
    /\ now = 0
    /\ task_id = FirstId
    /\ tasks = {FirstId}
    /\ sibling = <<>>
    /\ created_at = now
    /\ result = NoResult
    /\ impl \in {"core", "poc"}
    /\ kind = "essay"
    /\ params \in {EssayParams(Chars("T"), "opinion", W, Iso(DeadlineFar)) :
                     W \in WordCounts}
    /\ status = INITIALIZED
    /\ current_stage = 0
    /\ essay_data = EssayData
    /\ stage_completed = [i \in 0..(NumStages - 1) |-> FALSE]
    /\ timeline = <<>>
    /\ sources = <<>>
    /\ queue = <<>>
    /\ current_index = 0
    /\ current_source_idx = <<>>
    /\ shuffle_each_round = TRUE
    /\ rng = <<0, 0>>

NextOutline ==
    \/ Start
    \/ SetThesis(ThesisValid)
    \/ NextStage
    \/ PocStart
    \/ PocSetThesis(ThesisValid)
    \/ PocNextStage

SpecOutline == InitOutline /\ [][NextOutline]_vars

\* a section text of n words
Words(n) == Chars("valid ") \o Repeat(Chars("a "), n - 1)

\* section texts of 3, 20, 25 and 30 words: with a target of 100 words the
\* totals fall on every side of the 10% and 20% deviations
WordContents == {ContentClaim, Words(20), ContentLong, Words(30)}

\* the poc task is given one text, of 20 words: four of its five sections
\* written make 80 words of 100
PocWordContents == {Words(20)}

\* the 0-based indices of the sections
SectionIndices(sections) == 0..(Len(sections) - 1)

\* an essay task of either implementation, written section by section and
\* revised
InitRevision ==
    /\ Init
    /\ kind = "essay"
    /\ params = EssayParams(Chars(" T "), "opinion", 100, Iso(DeadlineFar))

NextRevision ==
    \/ Start
    \/ SetThesis(ThesisValid)
    \/ NextStage
    \/ \E content \in WordContents :
         \E section_index \in SectionIndices(essay_data.sections) :
            AddSectionContent(section_index, content)
    \/ PocStart
    \/ PocSetThesis(ThesisValid)
    \/ PocNextStage
    \/ \E content \in PocWordContents :
         \E idx \in SectionIndices(essay_data.sections) :
            PocSaveSectionContent(idx, content)
    \/ PocRunRevision

SpecRevision == InitRevision /\ [][NextRevision]_vars

\* a thesis that says one of its keywords six times
ThesisRepeating == Chars("Valid valid valid valid valid valid claims.")

FocusTheses == {ThesisValid, ThesisRepeating}

\* a section text without any keyword of the theses, and one with "valid"
FocusContents == {ContentClaim, ContentLong}

\* a core essay task given one of two theses, written and revised
InitFocus ==
    /\ Init
    /\ IsCoreEssay
    /\ params = EssayParams(Chars(" T "), "opinion", 100, Iso(DeadlineFar))

NextFocus ==
    \/ Start
    \/ \E thesis \in FocusTheses : SetThesis(thesis)
    \/ NextStage
    \/ \E content \in FocusContents :
         \E section_index \in SectionIndices(essay_data.sections) :
            AddSectionContent(section_index, content)

SpecFocus == InitFocus /\ [][NextFocus]_vars

\* the latest deadline given, in half days from the construction
MaxDeadline == 80

\* an essay task whose deadline is any half day up to MaxDeadline
TimelineParamInputs ==
    {EssayParams(Chars("T"), "opinion", 100, Iso(d)) : d \in 0..MaxDeadline}

\* a core essay task given any of these deadlines, and started
InitTimeline ==
    /\ now = 0
    /\ task_id = FirstId
    /\ tasks = {FirstId}
    /\ sibling = <<>>
    /\ created_at = now
    /\ result = NoResult
    /\ impl = "core"
    /\ kind = "essay"
    /\ params \in TimelineParamInputs
    /\ status = INITIALIZED
    /\ current_stage = 0
    /\ essay_data = EssayData
    /\ stage_completed = [i \in 0..(NumStages - 1) |-> FALSE]
    /\ timeline = <<>>
    /\ sources = <<>>
    /\ queue = <<>>
    /\ current_index = 0
    /\ current_source_idx = <<>>
    /\ shuffle_each_round = TRUE
    /\ rng = <<0, 0>>

NextTimeline ==
    \/ Start
    \/ SetThesis(ThesisValid)

SpecTimeline == InitTimeline /\ [][NextTimeline]_vars

-----------------------------------------------------------------------------
(* Properties *)

\* a save call of either implementation
SaveOps == {"add_section_content", "save_section_content"}

\* the call just made was given a section index outside the sections it found
IndexOutOfRange ==
    /\ result'.args # <<>>
    /\ ~(0 <= result'.args[1] /\ result'.args[1] < Len(essay_data.sections))

\* C1: next_stage advances only when the current stage's validate holds; a
\* call made while validate fails reports an error and leaves the stage
\* index, the status and the essay data as they were.
C1_NextStageGated ==
    [][(kind = "essay" /\ result'.op = "next_stage" /\ current_stage < NumStages
            /\ ~StageValidate(current_stage, essay_data))
       => (result'.err # "none" /\ UNCHANGED <<current_stage, status, essay_data>>)]_vars

\* C2: set_thesis outside Pick Ideas, and a section save outside Write, is
\* rejected with a single error and changes nothing in the task.
C2_HelperStageGuard ==
    [][(kind = "essay"
            /\ \/ result'.op = "set_thesis" /\ current_stage # 0
               \/ result'.op \in SaveOps /\ current_stage # 2)
       => (/\ result'.err # "none"
           /\ Len(result'.msgs) = 1
           /\ UNCHANGED <<status, current_stage, essay_data, stage_completed,
                          timeline>>)]_vars

\* C3: the stage index moves only by +1 in a next_stage that returned and by
\* -1 in a prev_stage; every other call leaves it alone, it never leaves
\* 0..NumStages, and prev_stage at Pick Ideas leaves it at Pick Ideas.
C3_StageIndexSteps ==
    [][kind = "essay"
       => /\ \/ current_stage' = current_stage
             \/ /\ current_stage' = current_stage + 1
                /\ result'.op = "next_stage" /\ result'.err = "none"
             \/ /\ current_stage' = current_stage - 1
                /\ result'.op = "prev_stage"
          /\ current_stage' \in 0..NumStages
          /\ (result'.op = "prev_stage" /\ current_stage = 0) => current_stage' = 0]_vars

\* C3 witness: a retreat from Revise has brought a task with sections back
\* to Write
C3_RetreatedToWrite ==
    /\ IsPocEssay
    /\ result.op = "prev_stage"
    /\ current_stage = NumStages - 2
    /\ essay_data.sections # <<>>

\* C4: a next_stage that returns from the Revise stage, no high-severity
\* issue being stored, leaves the task Completed.
C4_ReviseAdvanceCompletes ==
    [][(kind = "essay" /\ result'.op = "next_stage" /\ result'.err = "none"
            /\ current_stage = NumStages - 1
            /\ ~HasHigh(essay_data.revision_passes))
       => status' = COMPLETED]_vars

\* C5: once an essay task is Completed, no call runs a stage's execute or
\* changes the stage index, the status or the essay data.
C5_CompletedTerminal ==
    [][(IsCoreEssay /\ status = COMPLETED)
       => (result'.executed = NoStage
           /\ UNCHANGED <<current_stage, status, essay_data>>)]_vars

StatusRank(st) ==
    CASE st = INITIALIZED -> 0
      [] st = ACTIVE -> 1
      [] st = COMPLETED -> 2
      [] st = FAILED -> 3

\* C6: the status of a task never moves backwards in the order Initialized,
\* Active, Completed; the only other move is to Failed.
C6_StatusMonotone ==
    [][status' = FAILED \/ StatusRank(status') >= StatusRank(status)]_vars

\* C7: set_thesis stores a text only if it passes the thesis check (trimmed
\* length at least 10, one or two non-empty period-separated segments); a
\* rejected call leaves the stored thesis as it was.
C7_ThesisChecked ==
    [][(kind = "essay" /\ result'.op = "set_thesis")
       => IF result'.err = "none"
          THEN PickIdeas_validate_thesis(essay_data'.thesis)
          ELSE essay_data'.thesis = essay_data.thesis]_vars

\* C8: a section save in the Write stage with an index outside
\* 0..(number of sections - 1) fails with an out-of-range error and changes
\* no section.
C8_IndexOutOfRangeFails ==
    [][(kind = "essay" /\ result'.op \in SaveOps /\ current_stage = 2
            /\ IndexOutOfRange)
       => (result'.err = "IndexError"
           /\ essay_data'.sections = essay_data.sections)]_vars

\* C9: after a save the section's actual word count is the number of
\* whitespace-delimited words of its content, and it is completed exactly
\* when that number is positive.
C9_SavedSectionCounts ==
    [][(kind = "essay" /\ result'.op \in SaveOps /\ result'.err = "none"
            /\ ~IndexOutOfRange)
       => LET section == essay_data'.sections[result'.args[1] + 1]
          IN  /\ section.actual_words = Len(SplitWords(section.content))
              /\ section.completed = (section.actual_words > 0)]_vars

\* C10: a run of the Revise stage leaves as the stored issue list exactly
\* what the pipeline gives for the essay it ran on: nothing of an earlier
\* run stays, and the list is empty when the pipeline finds nothing.
C10_ReviseReplacesIssues ==
    [][(kind = "essay" /\ (result'.executed = <<NumStages - 1>> \/ result'.op = "run_revision"))
       => essay_data'.revision_passes =
             IF impl = "core" THEN RunPasses(essay_data')
                              ELSE Poc_revision_issues(essay_data')]_vars

\* C10 witness: start has run the Revise stage again, on a task that
\* next_stage had brought there, and issues are stored
C10_ReviseRanAgain ==
    /\ IsCoreEssay
    /\ result.op = "start"
    /\ result.executed = <<NumStages - 1>>
    /\ essay_data.revision_passes # <<>>

\* C11: whenever an essay task is Completed, the stored issue list holds no
\* high-severity issue.
C11_CompletedHasNoHighIssue ==
    (kind = "essay" /\ status = COMPLETED) => ~HasHigh(essay_data.revision_passes)

\* C11 witness: a started task has been advanced out of Revise with issues,
\* none of them high, in store
C11_CompletedWithIssues ==
    /\ IsCoreEssay
    /\ status = COMPLETED
    /\ timeline # <<>>
    /\ result.op = "next_stage"
    /\ essay_data.revision_passes # <<>>

\* C12: once the sections of an essay task are populated, there are as many
\* sections as outline entries and the i-th section carries the identifier,
\* the title and the target words of the i-th outline entry.
C12_SectionsFollowOutline ==
    (kind = "essay" /\ essay_data.sections # <<>>)
    => /\ Len(essay_data.sections) = Len(essay_data.outline.sections)
       /\ \A i \in 1..Len(essay_data.sections) :
             /\ essay_data.sections[i].title = essay_data.outline.sections[i].title
             /\ essay_data.sections[i].target_words
                   = essay_data.outline.sections[i].word_count
             /\ impl = "poc"
                   => essay_data.sections[i].id = essay_data.outline.sections[i].id

\* the step enters the Write stage, or runs its execute again
WriteEntered ==
    /\ kind = "essay"
    /\ current_stage' = 2
    /\ (current_stage # 2 \/ result'.executed = <<2>>)

\* C13: whenever the Write stage is entered or re-entered, there is one
\* section per outline entry; an entry whose identifier an existing section
\* carries keeps that section's content, word count and completed flag, any
\* other entry gets an empty section that is not completed, and no section
\* stays whose identifier the outline has lost.  (Core sections carry no
\* identifier, so there every entry is one of the others.)
C13_WriteEntryKeepsMatched ==
    [][WriteEntered
       => LET old == essay_data.sections
              new == essay_data'.sections
              out == essay_data'.outline.sections
              match(i) == IF impl = "poc"
                          THEN {k \in 1..Len(old) : old[k].id = out[i].id}
                          ELSE {}
          IN  /\ Len(new) = Len(out)
              /\ \A i \in 1..Len(new) :
                    /\ impl = "poc" => new[i].id = out[i].id
                    /\ IF match(i) # {}
                       THEN \E k \in match(i) :
                               /\ new[i].content = old[k].content
                               /\ new[i].actual_words = old[k].actual_words
                               /\ new[i].completed = old[k].completed
                       ELSE /\ new[i].content = <<>>
                            /\ new[i].actual_words = 0
                            /\ ~new[i].completed]_vars

\* C14: for a poc essay task in the Write stage, to_state followed by
\* from_state yields a task with the same stage index and the same sections
\* in the same order, each with identical content, actual word count and
\* completed flag.
C14_WriteRoundTrip ==
    [][(IsPocEssay /\ current_stage = 2 /\ result'.op = "from_state")
       => /\ current_stage' = current_stage
          /\ Len(essay_data'.sections) = Len(essay_data.sections)
          /\ \A i \in 1..Len(essay_data.sections) :
                /\ essay_data'.sections[i].content = essay_data.sections[i].content
                /\ essay_data'.sections[i].actual_words
                      = essay_data.sections[i].actual_words
                /\ essay_data'.sections[i].completed
                      = essay_data.sections[i].completed]_vars

C14_RestoredInWrite ==
    /\ IsPocEssay
    /\ current_stage = 2
    /\ result.op = "from_state"
    /\ \E i \in 1..Len(essay_data.sections) :
          essay_data.sections[i].completed /\ essay_data.sections[i].actual_words > 0
    /\ \E i \in 1..Len(essay_data.sections) : ~essay_data.sections[i].completed

\* C15: restoring the serialized record of a poc essay or reading task yields
\* a task equal to the original in every field of the data model: identifier,
\* kind, creation timestamp, status, parameters, stage index or focus and
\* per-source cursors, and the domain payload.
C15_RestoreIsLossless ==
    [][(impl = "poc" /\ result'.op = "from_state") => TaskObject' = TaskObject]_vars

\* C16: after a reading task's start, no operation (a further start included)
\* changes the source list or the contents and order of the delivery queue,
\* and the delivery cursor never decreases.
C16_QueueBuiltOnce ==
    [][(IsCoreReading /\ status # INITIALIZED)
       => /\ sources' = sources
          /\ queue' = queue
          /\ current_index' >= current_index]_vars

\* C17: on a started core reading task, a get_next_chunk call made with k - 1
\* chunks delivered returns the k-th queue entry and advances the cursor by
\* exactly one; the call that delivers the last entry and every later call
\* report completed, and a call made after the last delivery leaves the cursor
\* equal to the queue length.  The cursor is 0 after start and only
\* get_next_chunk moves it, so it counts the calls that delivered a chunk.
C17_NextChunkInOrder ==
    [][(IsCoreReading /\ status # INITIALIZED /\ result'.op = "get_next_chunk")
       => IF current_index < Len(queue)
          THEN /\ result'.chunk = <<queue[current_index + 1]>>
               /\ current_index' = current_index + 1
               /\ result'.completed = (current_index' = Len(queue))
          ELSE /\ result'.chunk = <<>>
               /\ result'.completed
               /\ current_index' = Len(queue)]_vars

C17_LastChunkDelivered ==
    /\ IsCoreReading
    /\ result.op = "get_next_chunk"
    /\ Len(queue) >= 3
    /\ current_index = Len(queue)
    /\ result.chunk = <<queue[Len(queue)]>>
    /\ result.completed

\* C18: get_reading_status changes neither the cursor nor the status; it
\* reports delivered + remaining = total, and its next-chunk preview describes
\* exactly the chunk the next get_next_chunk call returns, with no preview once
\* every chunk is delivered.
C18_StatusReadsOnly ==
    [][(IsCoreReading /\ result'.op = "get_reading_status")
       => /\ current_index' = current_index
          /\ status' = status
          /\ LET rep == result'.report[1]
             IN  /\ rep.delivered + rep.remaining = rep.total_chunks
                 /\ rep.delivered = current_index
                 /\ rep.total_chunks = Len(queue)
          /\ result'.chunk =
                IF current_index' < Len(queue')
                THEN <<ChunkMeta(Reading_chunk_at(queue', current_index'))>>
                ELSE <<>>]_vars

C18_StatusMidway ==
    /\ IsCoreReading
    /\ result.op = "get_reading_status"
    /\ result.report[1].delivered >= 1
    /\ result.report[1].remaining >= 1
    /\ result.chunk # <<>>

\* the (round, source) pairs of the paragraphs of srcs
Slots(srcs) ==
    LET total == SumSeq([i \in 1..Len(srcs) |-> Len(srcs[i].paragraphs)])
    IN  {p \in (1..total) \X (1..Len(srcs)) : p[1] <= Len(srcs[p[2]].paragraphs)}

\* the chunk of the r-th paragraph of the i-th source
ChunkOf(srcs, r, i) ==
    ReadingChunk(srcs[i].id, srcs[i].title, r, Len(srcs[i].paragraphs),
                 srcs[i].paragraphs[r])

\* C19: with shuffling disabled the queue of a core reading task lists round
\* 1, then round 2, and so on, round r holding the r-th paragraph of every
\* source with at least r paragraphs, in source input order; for paragraph
\* counts 3 and 1 the queue is [src1 p1, src2 p1, src1 p2, src1 p3].
C19_RoundRobinUnshuffled ==
    (IsCoreReading /\ status # INITIALIZED /\ ~shuffle_each_round)
    => LET slots == Slots(sources)
           rank(p) == Cardinality({q \in slots :
                         q[1] < p[1] \/ (q[1] = p[1] /\ q[2] <= p[2])})
       IN  /\ Len(queue) = Cardinality(slots)
           /\ \A p \in slots : queue[rank(p)] = ChunkOf(sources, p[1], p[2])
           /\ params = ParamsThreeAndOne
              => [k \in 1..Len(queue) |-> <<queue[k].source_id, queue[k].paragraph_index>>]
                 = << <<DefaultId(1), 1>>, <<DefaultId(2), 1>>,
                      <<DefaultId(1), 2>>, <<DefaultId(1), 3>> >>

C19_ThreeAndOneQueued ==
    /\ IsCoreReading
    /\ status = ACTIVE
    /\ ~shuffle_each_round
    /\ params = ParamsThreeAndOne
    /\ [i \in 1..Len(sources) |-> Len(sources[i].paragraphs)] = <<3, 1>>
    /\ Len(queue) = 4

\* C20: with or without shuffling the queue of a core reading task contains
\* every paragraph of every source exactly once (its length is the sum of the
\* paragraph counts), each source's paragraphs appear in increasing index
\* order, and every chunk of round r precedes every chunk of round r + 1;
\* shuffling only permutes the sources inside a round.
C20_QueueCoversRounds ==
    (IsCoreReading /\ status # INITIALIZED)
    => LET slots == Slots(sources)
           \* the chunks of the rounds before r
           before(r) == Cardinality({q \in slots : q[1] < r})
       IN  /\ Len(queue) = SumSeq([i \in 1..Len(sources) |-> Len(sources[i].paragraphs)])
           /\ \A p \in slots :
                 /\ Cardinality({k \in 1..Len(queue) :
                                   queue[k] = ChunkOf(sources, p[1], p[2])}) = 1
                 /\ \E k \in (before(p[1]) + 1)..before(p[1] + 1) :
                       queue[k] = ChunkOf(sources, p[1], p[2])
           /\ \A j, k \in 1..Len(queue) :
                 j < k => /\ queue[j].paragraph_index <= queue[k].paragraph_index
                          /\ queue[j].source_id = queue[k].source_id
                             => queue[j].paragraph_index < queue[k].paragraph_index

C20_ShuffledRound ==
    /\ IsCoreReading
    /\ status = ACTIVE
    /\ shuffle_each_round
    /\ Len(queue) >= 4
    /\ \E j, k \in 1..Len(sources) :
          /\ j < k
          /\ \E a, b \in 1..Len(queue) :
                /\ a < b
                /\ queue[a] = ChunkOf(sources, 1, k)
                /\ queue[b] = ChunkOf(sources, 1, j)

AdvancedWith(mode) ==
    /\ IsPocReading
    /\ current_source_idx # <<>>
    /\ result'.op = "advance"
    /\ result'.msgs = <<mode>>

\* the sources after the focused one has moved its cursor by one, if it could
FocusedStepped ==
    LET cur == current_source_idx[1] + 1
    IN  IF HasUnread(sources[cur])
        THEN [sources EXCEPT ![cur].current_index = @ + 1]
        ELSE sources

\* C22: advance(mode='switch') advances the focused source's cursor by one if
\* it has an unread paragraph, then moves focus to the first source after it
\* in cyclic order (the focused source itself last) that still has unread
\* paragraphs; when no source has any, focus is unchanged, and no error is
\* raised.
C22_SwitchMovesFocus ==
    [][AdvancedWith("switch")
       => LET n == Len(sources)
              cur == current_source_idx[1]
              \* the source d places after the focused one, cyclically
              at(d) == (cur + d) % n
              unread(d) == HasUnread(sources'[at(d) + 1])
          IN  /\ result'.err = "none"
              /\ sources' = FocusedStepped
              /\ IF \E d \in 1..n : unread(d)
                 THEN \E d \in 1..n :
                        /\ unread(d)
                        /\ \A e \in 1..(d - 1) : ~unread(e)
                        /\ current_source_idx' = <<at(d)>>
                 ELSE current_source_idx' = current_source_idx]_vars

C22_SwitchWrapped ==
    /\ IsPocReading
    /\ result.op = "advance"
    /\ result.msgs = <<"switch">>
    /\ Len(sources) >= 2
    /\ current_source_idx = <<0>>
    /\ HasUnread(sources[1])
    /\ sources[1].current_index >= 1
    /\ sources[Len(sources)].current_index >= 1

\* C23: advance(mode='continue') advances the focused source's cursor by one
\* and never changes which source has focus; when the focused source has no
\* unread paragraph left, the current chunk of that same source reports
\* finished.
C23_ContinueKeepsFocus ==
    [][AdvancedWith("continue")
       => /\ sources' = FocusedStepped
          /\ current_source_idx' = current_source_idx
          /\ LET cur == current_source_idx[1] + 1
                 chunk == Poc_current_chunk(sources', current_source_idx')
             IN  ~HasUnread(sources'[cur])
                 => /\ chunk[1].is_finished
                    /\ chunk[1].source_title = sources[cur].title]_vars

\* the identifier start gives the source of the i-th text when the text
\* carries none
EntryId(i) ==
    IF impl = "poc" THEN Chars("src_") \o IntToChars(i - 1)
    ELSE IF params.texts[i].form = "dict" /\ params.texts[i].id # <<>>
    THEN params.texts[i].id
    ELSE DefaultId(i)

\* C24: starting a reading task with an empty text list, or with only blank
\* texts, fails with an error; otherwise blank entries are dropped, so that
\* after a successful start every source has at least one paragraph and the
\* sources keep the input order of the non-blank entries.
C24_BlankTextsRejected ==
    [][(kind = "reading" /\ result'.op = "start")
       => LET texts == params.texts
              nonblank == Positions(texts, LAMBDA i : ~IsBlank(texts[i].text))
          IN  IF nonblank = <<>>
              THEN result'.err # "none"
              ELSE result'.err = "none"
                   => /\ \A k \in 1..Len(sources') : sources'[k].paragraphs # <<>>
                      /\ Len(sources') = Len(nonblank)
                      /\ \A k \in 1..Len(nonblank) :
                            sources'[k].id = EntryId(nonblank[k])]_vars

\* the elements of a sequence
Range(seq) == {seq[i] : i \in 1..Len(seq)}

\* the four parameters as the essay data holds them
StoredParams(ed) == <<ed.topic, ed.essay_type, ed.word_count, ed.deadline>>

\* C25: essay parameter validation fails when the topic is empty, the essay
\* type is outside the four allowed values, the word count is outside
\* 100..5000, or the deadline is unparseable or not strictly in the future; a
\* failure reports one error that names every violated rule and stores none
\* of the parameters, and a success stores all four.
C25_ParamsValidated ==
    [][(kind = "essay" /\ result'.op = "start")
       => LET noTopic == Strip(params.topic) = <<>>
              badType == params.essay_type
                            \notin {"opinion", "analytical", "comparative", "interpretive"}
              badCount == params.word_count < 100 \/ params.word_count > 5000
              unparseable == params.deadline.fmt # "iso"
              past == params.deadline.fmt = "iso" /\ params.deadline.at <= now
              named == Range(result'.msgs)
          IN  IF noTopic \/ badType \/ badCount \/ unparseable \/ past
              THEN /\ result'.err = "ValueError"
                   /\ noTopic <=> "Topic is required" \in named
                   /\ badType <=> "Valid essay type is required" \in named
                   /\ badCount <=> "Word count must be between 100 and 5000" \in named
                   /\ unparseable <=> "Invalid deadline format" \in named
                   /\ past <=> "Deadline must be in the future" \in named
                   /\ StoredParams(essay_data') = StoredParams(essay_data)
              ELSE StoredParams(essay_data')
                      = <<Strip(params.topic), params.essay_type, params.word_count,
                          <<params.deadline.at>> >>]_vars

\* C26: when start of a core essay task fails, on parameter validation or
\* because less than one whole day remains before the deadline, the task's
\* essay data, timeline, stage index and status are as before the call.
C26_FailedStartKeepsState ==
    [][(IsCoreEssay /\ result'.op = "start" /\ result'.err # "none")
       => /\ essay_data' = essay_data
          /\ timeline' = timeline
          /\ current_stage' = current_stage
          /\ status' = status]_vars

\* the calls of the manager that look a task up by its identifier
LookupOps == {"get_task", "start_task", "advance_task"}

\* C27: looking up, starting or advancing an identifier the registry does not
\* hold yields a not-found error (KeyError, not the ValueError of a
\* validation), and leaves the registry and every stored task as they were
C27_UnknownIdNotFound ==
    [][(result'.op \in LookupOps /\ result'.args[1] \notin tasks)
       => /\ result'.err = "KeyError"
          /\ tasks' = tasks
          /\ sibling' = sibling
          /\ taskVars' = taskVars]_vars

\* C28: delete_task of a stored identifier removes that task and no other (a
\* later get_task of it fails, get_all_tasks omits it, the tasks themselves
\* are untouched); delete_task of an identifier not stored changes nothing
\* and answers that nothing was deleted
C28_DeleteRemovesExactlyThat ==
    [][result'.op = "delete_task"
       => LET id == result'.args[1]
              listed == get_all_tasks(tasks')
          IN  /\ tasks' = tasks \ {id}
              /\ sibling' = sibling
              /\ taskVars' = taskVars
              /\ get_task(impl, tasks', id).err # "none"
              /\ \A i \in 1..Len(listed) : listed[i].id # id
              /\ result'.report = <<id \in tasks>>]_vars

\* the step in which next_stage generated the outline
OutlineGenerated ==
    result'.op = "next_stage" /\ essay_data'.outline # essay_data.outline

\* the sum of the word counts of an outline's sections
OutlineWords(outline) ==
    SumSeq([i \in 1..Len(outline.sections) |-> outline.sections[i].word_count])

\* how far the words of the outline are from the target word count
OutlineSlack(ed) ==
    IF OutlineWords(ed.outline) >= ed.word_count
    THEN OutlineWords(ed.outline) - ed.word_count
    ELSE ed.word_count - OutlineWords(ed.outline)

\* C29: for every target word count from 100 to 5000, the word counts of the
\* sections of the generated outline sum to a value that differs from the
\* target by at most the number of sections
C29_OutlineSumNearTarget ==
    [][(OutlineGenerated /\ essay_data'.word_count \in WordCounts)
       => OutlineSlack(essay_data') <= Len(essay_data'.outline.sections)]_vars

\* C29 (witness): an outline was generated whose sections sum to four words
\* off the target
C29_RoundingSlack ==
    /\ result.op = "next_stage"
    /\ essay_data.outline.set
    /\ essay_data.word_count \in WordCounts
    /\ OutlineSlack(essay_data) = 4

\* the body paragraphs the specification gives a target word count
BodyParagraphsFor(W) ==
    IF W <= 500 THEN 2 ELSE IF W <= 800 THEN 3 ELSE IF W <= 1200 THEN 4 ELSE 5

\* C30: for every target word count from 100 to 5000 the generated outline
\* is one Introduction, then 2 body paragraphs up to 500 words, 3 up to 800,
\* 4 up to 1200 and 5 above, then one Conclusion
C30_BodyParagraphCount ==
    [][(OutlineGenerated /\ essay_data'.word_count \in WordCounts)
       => LET secs == essay_data'.outline.sections
              body == {i \in 1..Len(secs) :
                          /\ secs[i].title # TitleIntroduction
                          /\ secs[i].title # TitleConclusion}
          IN  /\ Len(secs) >= 2
              /\ secs[1].title = TitleIntroduction
              /\ secs[Len(secs)].title = TitleConclusion
              /\ body = 2..(Len(secs) - 1)
              /\ Cardinality(body) = BodyParagraphsFor(essay_data'.word_count)]_vars

\* the step in which the revision passes ran: ReviseStage.execute at the
\* entry of the Revise stage (core), run_revision (poc)
RevisionRan ==
    \/ result'.op = "run_revision"
    \/ result'.op = "next_stage" /\ result'.executed = <<3>>

\* the sum of the sections' actual words
TotalActual(ed) ==
    SumSeq([i \in 1..Len(ed.sections) |-> ed.sections[i].actual_words])

\* the word-count issues of a revision run that are about the whole essay
OverallIssues(ed) ==
    SelectSeq(ed.revision_passes,
              LAMBDA issue : /\ issue.issue_type = "word_count"
                             /\ issue.location \in {OverallLocation, Chars("Overall")})

\* the total deviates from the target by more than one part in parts
DeviatesOver(ed, parts) == parts * Abs(TotalActual(ed) - ed.word_count) > ed.word_count

\* C31: a revision run emits exactly one overall word-count issue when the
\* sum of the sections' actual words deviates from the target by more than
\* 10%, high when the deviation exceeds 20% and medium otherwise, and no
\* overall word-count issue when the deviation is at most 10%
C31_OverallWordCountIssue ==
    [][RevisionRan
       => IF DeviatesOver(essay_data', 10)
          THEN /\ Len(OverallIssues(essay_data')) = 1
               /\ OverallIssues(essay_data')[1].severity =
                     IF DeviatesOver(essay_data', 5) THEN "high" ELSE "medium"
          ELSE OverallIssues(essay_data') = <<>>]_vars

\* the thesis-focus issues a revision run stored for the section titled title
FocusIssues(ed, title) ==
    SelectSeq(ed.revision_passes,
              LAMBDA issue : issue.issue_type = "thesis_focus" /\ issue.location = title)

\* fewer than a fifth of the distinct thesis keywords occur in the content
FewThesisKeywords(thesis, content) ==
    LET thesis_set == SeqToSet(extract_keywords(thesis))
        content_set == SeqToSet(extract_keywords(content))
    IN  5 * Cardinality(thesis_set \cap content_set) < Cardinality(thesis_set)

\* C32: for every section that is neither an introduction nor a conclusion,
\* the thesis-focus pass emits one medium issue exactly when the distinct
\* thesis keywords that occur in the section's content, divided by the
\* number of distinct thesis keywords, are below 0.2
C32_ThesisFocusByDistinctKeywords ==
    [][(IsCoreEssay /\ RevisionRan /\ extract_keywords(essay_data'.thesis) # <<>>)
       => \A i \in 1..Len(essay_data'.sections) :
             LET sec == essay_data'.sections[i]
                 found == FocusIssues(essay_data', sec.title)
             IN  ~IsIntroOrConclusion(sec.title)
                 => IF FewThesisKeywords(essay_data'.thesis, sec.content)
                    THEN Len(found) = 1 /\ found[1].severity = "medium"
                    ELSE found = <<>>]_vars

\* the days of the stages before stage number i of a timeline
DaysBefore(stages, i) == SumSeq([j \in 1..(i - 1) |-> stages[j].days])

\* C33: in every generated timeline Pick Ideas starts on day 1 and each later
\* stage starts on the day after the last day of the stage before it: its
\* start day is 1 plus the day counts of all earlier stages
C33_TimelineContiguous ==
    timeline # <<>>
    => LET stages == timeline[1].stages
       IN  /\ stages[1].name = "Pick Ideas"
           /\ \A i \in 1..Len(stages) :
                 stages[i].start_day = 1 + DaysBefore(stages, i)

\* C33 (witness): a timeline for a week or more, whose Write stage takes more
\* than the two days of the stages before it
C33_LongTimeline ==
    /\ timeline # <<>>
    /\ timeline[1].total_days >= 7
    /\ timeline[1].stages[3].days > 2
    /\ result.op = "start"

\* C40: for every number of whole days until the deadline that start
\* accepts, the day counts of the four stages sum to at most the total days
C40_TimelineFitsDeadline ==
    timeline # <<>>
    => DaysBefore(timeline[1].stages, Len(timeline[1].stages) + 1)
          <= timeline[1].total_days

\* C34: whenever an essay task is in the Revise stage or Completed, its
\* section list is non-empty and every section is completed
C34_ReviseHasCompletedSections ==
    (kind = "essay" /\ (current_stage >= 3 \/ status = COMPLETED))
    => /\ essay_data.sections # <<>>
       /\ AllCompleted(essay_data.sections)

\* a core essay task in the Revise stage whose stored issues include a
\* high-severity one
StuckInRevise ==
    IsCoreEssay /\ current_stage = 3 /\ HasHigh(essay_data.revision_passes)

\* C35: a core essay task that is in Revise with a high-severity issue stays
\* there: no call changes the sections or takes the high issue away, every
\* next_stage is rejected, and the task never becomes Completed
C35_HighIssueBlocksForever ==
    [][StuckInRevise
       => /\ current_stage' = 3
          /\ HasHigh(essay_data'.revision_passes)
          /\ essay_data'.sections = essay_data.sections
          /\ status' # COMPLETED
          /\ (result'.op = "next_stage" => result'.err = "ValueError")]_vars

\* C35 (witness): a next_stage was rejected in Revise for a high issue
C35_NextStageRejected ==
    /\ StuckInRevise
    /\ result.op = "next_stage"
    /\ result.err = "ValueError"

\* every high-severity issue stored is the overall word-count issue
OnlyOverallIsHigh(ed) ==
    \A i \in 1..Len(ed.revision_passes) :
        ed.revision_passes[i].severity = "high"
        => /\ ed.revision_passes[i].issue_type = "word_count"
           /\ ed.revision_passes[i].location = OverallLocation

\* C36: of the seven analyzers only the overall word-count check emits a
\* high-severity issue, so in the Revise stage of the core task the gate
\* passes exactly when the sections' actual words total within 20% of the
\* target word count
C36_GatePassesWithinFifth ==
    (IsCoreEssay /\ current_stage = 3)
    => /\ OnlyOverallIsHigh(essay_data)
       /\ Revise_validate(essay_data) <=> ~DeviatesOver(essay_data, 5)

\* the cursors of the sources lie between 0 and their paragraph counts
CursorsInRange(srcs) ==
    \A i \in 1..Len(srcs) :
        0 <= srcs[i].current_index /\ srcs[i].current_index <= Len(srcs[i].paragraphs)

\* C37: an advance call of the per-source reading task leaves every cursor
\* between 0 and its source's paragraph count, decreases no cursor, and
\* changes the cursor of no source but the one focused when the call began,
\* and that one by at most one
C37_CursorsBoundedMonotone ==
    [][(IsPocReading /\ result'.op = "advance")
       => /\ Len(sources') = Len(sources)
          /\ CursorsInRange(sources')
          /\ \A i \in 1..Len(sources) :
                /\ sources'[i].current_index >= sources[i].current_index
                /\ sources'[i].current_index <= sources[i].current_index + 1
                /\ sources'[i].current_index # sources[i].current_index
                   => current_source_idx = <<i - 1>>]_vars

\* C37 (witness): advance calls have brought a source of two paragraphs or
\* more to its end while another source is partly read
C37_CursorAtEnd ==
    /\ IsPocReading
    /\ result.op = "advance"
    /\ \E i, j \in 1..Len(sources) :
          /\ i # j
          /\ Len(sources[i].paragraphs) >= 2
          /\ sources[i].current_index = Len(sources[i].paragraphs)
          /\ sources[j].current_index >= 1

\* some source has an unread paragraph
AnyUnread(srcs) == \E i \in 1..Len(srcs) : HasUnread(srcs[i])

\* the modes advance knows
KnownModes == {"continue", "switch"}

\* C38: after an advance call in the mode continue or switch the focused
\* source has an unread paragraph whenever any source has one: focus rests
\* on a finished source only when all sources are finished
C38_FocusOnUnread ==
    [][(IsPocReading /\ result'.op = "advance" /\ result'.msgs[1] \in KnownModes
          /\ current_source_idx' # <<>>)
       => (AnyUnread(sources')
             => HasUnread(sources'[current_source_idx'[1] + 1]))]_vars

\* C38 (witness): an advance finished the source it was on and moved focus to
\* another source, which has an unread paragraph
C38_FocusMovedOn ==
    /\ IsPocReading
    /\ result.op = "advance"
    /\ result.msgs[1] \in KnownModes
    /\ current_source_idx # <<>>
    /\ HasUnread(sources[current_source_idx[1] + 1])
    /\ \E i \in 1..Len(sources) :
          /\ i # current_source_idx[1] + 1
          /\ Len(sources[i].paragraphs) >= 1
          /\ ~HasUnread(sources[i])

\* the paragraphs not yet read, over all sources
Remaining(srcs) ==
    SumSeq([i \in 1..Len(srcs) |-> Len(srcs[i].paragraphs) - srcs[i].current_index])

\* an advance call in one of the modes advance knows
AdvanceKnown == \E mode \in KnownModes : PocAdvance(mode)

\* the poc reading task whose caller keeps calling advance
SpecPocReadingFair ==
    InitPocReading /\ [][NextPocReading]_vars /\ WF_vars(AdvanceKnown)

\* C39: repeated advance calls in any mix of continue and switch bring every
\* cursor to its paragraph count: a call on a focused source with an unread
\* paragraph reads exactly one paragraph; a call on a finished focused source
\* reads none, and leaves the focus on a source with an unread paragraph if
\* there is one (so that only the first call of a run can read nothing) and
\* where it was if there is none; and eventually nothing is left unread
C39_AdvanceReadsEverything ==
    /\ [][(IsPocReading /\ result'.op = "advance" /\ result'.msgs[1] \in KnownModes
             /\ current_source_idx # <<>>)
          => IF HasUnread(sources[current_source_idx[1] + 1])
             THEN Remaining(sources') = Remaining(sources) - 1
             ELSE /\ sources' = sources
                  /\ IF AnyUnread(sources)
                     THEN HasUnread(sources'[current_source_idx'[1] + 1])
                     ELSE current_source_idx' = current_source_idx]_vars
    /\ <>[](IsPocReading => ~AnyUnread(sources))

\* C39 (witness): every paragraph of three or more, in two sources or more,
\* has been read by advance calls
C39_AllRead ==
    /\ IsPocReading
    /\ result.op = "advance"
    /\ result.msgs[1] \in KnownModes
    /\ Len(sources) >= 2
    /\ SumSeq([i \in 1..Len(sources) |-> Len(sources[i].paragraphs)]) >= 3
    /\ Remaining(sources) = 0

====
